---- MODULE Spec2Model ----
(***************************************************************************)
(* Escrow payment service: the Payment aggregate, the optimistic-locked    *)
(* payment repository, the saga orchestrator with its three sagas, and the *)
(* booking-event handlers of the application service.                      *)
(*                                                                         *)
(* Every store, gateway and bus call is one atomic action of the task that *)
(* issues it; tasks (HTTP requests, the consumer loop) interleave between  *)
(* calls.  The action that starts an operation runs it up to and including *)
(* its first such call: what precedes that call is local to the task.      *)
(* Each call may return an error, up to MaxFaults injected errors per      *)
(* behaviour.                                                              *)
(***************************************************************************)
EXTENDS Integers, Sequences, FiniteSets, TLC

\* ------------------------------------------------------------------ bounds
MaxOps == 3          \* operations (requests and deliveries) started in a behaviour
MaxFaults == 1      \* injected I/O errors in a behaviour
MaxCalls == 4        \* method calls on one aggregate

\* ------------------------------------------------------- program constants
PlatformFeePercent == 15

\* ---------------------------------------------------------- input domains
Tasks == {1, 2}
Bookings == {"b1"}
Runners == {"r1"}
Reasons == {<<"owner cancelled">>}     \* a string is the sequence of its parts
EmptyString == <<>>
Amounts == {150000}
Currencies == {"MYR"}

PaymentIDs == 1 .. MaxOps
Refs == 0 .. MaxOps          \* 0 is the empty string, n > 0 is "pi_mock_<n>"
EmptyRef == 0
NoRunner == "nil"            \* nil *uuid.UUID
NoTime == 0                  \* nil *time.Time
NoRow == [id |-> 0]
NoP == [id |-> 0]

\* ------------------------------------------------------------------ errors
Nil == [saga |-> "", step |-> "", kind |-> "nil"]
Err(k) == [saga |-> "", step |-> "", kind |-> k]
InvalidStateError(from, to) == [saga |-> "", step |-> "", kind |-> "InvalidState", from |-> from, to |-> to]
NotFoundError == Err("NotFound")
ConflictError == Err("Conflict")
\* fmt.Errorf("saga '%s' failed at step '%s': %w", ...)
Wrap(saga, step, e) == [e EXCEPT !.saga = saga, !.step = step]

\* --------------------------------------------------------------- aggregate
EscrowPending == "pending"
EscrowHeld == "held"
EscrowReleased == "released"
EscrowRefunded == "refunded"
EscrowFailed == "failed"

\* int64(float64(amountCents) * feePercent / 100.0): exact for the amounts
\* and the whole-number percentage used here
PlatformFee(amountCents, feePercent) == (amountCents * feePercent) \div 100

\* NewPayment that derives the payout from its own share of the amount
NewPaymentPayoutByShare(id, bookingID, amountCents, currency, feePercent, now) ==
  [id |-> id,
   bookingID |-> bookingID,
   runnerID |-> NoRunner,
   escrowStatus |-> EscrowPending,
   amountCents |-> amountCents,
   platformFeeCents |-> PlatformFee(amountCents, feePercent),
   runnerPayoutCents |-> PlatformFee(amountCents, 100 - feePercent),
   currency |-> currency,
   stripePaymentID |-> EmptyRef,
   escrowHeldAt |-> NoTime,
   escrowReleasedAt |-> NoTime,
   refundedAt |-> NoTime,
   refundReason |-> EmptyString,
   version |-> 1,
   updatedAt |-> now]

NewPayment(id, bookingID, amountCents, currency, feePercent, now) ==
  [id |-> id,
   bookingID |-> bookingID,
   runnerID |-> NoRunner,
   escrowStatus |-> EscrowPending,
   amountCents |-> amountCents,
   platformFeeCents |-> PlatformFee(amountCents, feePercent),
   runnerPayoutCents |-> amountCents - PlatformFee(amountCents, feePercent),
   currency |-> currency,
   stripePaymentID |-> EmptyRef,
   escrowHeldAt |-> NoTime,
   escrowReleasedAt |-> NoTime,
   refundedAt |-> NoTime,
   refundReason |-> EmptyString,
   version |-> 1,
   updatedAt |-> now]

\* HoldEscrow that does not keep the payment intent's id
HoldEscrowNoRef(p, stripePaymentID, now) ==
  IF p.escrowStatus # EscrowPending
  THEN [err |-> InvalidStateError(p.escrowStatus, EscrowHeld), p |-> p]
  ELSE [err |-> Nil,
        p |-> [p EXCEPT !.escrowStatus = EscrowHeld,
                        !.escrowHeldAt = now,
                        !.updatedAt = now]]

HoldEscrow(p, stripePaymentID, now) ==
  IF p.escrowStatus # EscrowPending
  THEN [err |-> InvalidStateError(p.escrowStatus, EscrowHeld), p |-> p]
  ELSE [err |-> Nil,
        p |-> [p EXCEPT !.escrowStatus = EscrowHeld,
                        !.stripePaymentID = stripePaymentID,
                        !.escrowHeldAt = now,
                        !.updatedAt = now]]

\* ReleaseToRunner that does not record the runner
ReleaseToRunnerNoRunner(p, runnerID, now) ==
  IF p.escrowStatus # EscrowHeld
  THEN [err |-> InvalidStateError(p.escrowStatus, EscrowReleased), p |-> p]
  ELSE [err |-> Nil,
        p |-> [p EXCEPT !.escrowStatus = EscrowReleased,
                        !.escrowReleasedAt = now,
                        !.updatedAt = now]]

\* ReleaseToRunner without its status guard
ReleaseToRunnerUnguarded(p, runnerID, now) ==
  [err |-> Nil,
   p |-> [p EXCEPT !.escrowStatus = EscrowReleased,
                   !.runnerID = runnerID,
                   !.escrowReleasedAt = now,
                   !.updatedAt = now]]

ReleaseToRunner(p, runnerID, now) ==
  IF p.escrowStatus # EscrowHeld
  THEN [err |-> InvalidStateError(p.escrowStatus, EscrowReleased), p |-> p]
  ELSE [err |-> Nil,
        p |-> [p EXCEPT !.escrowStatus = EscrowReleased,
                        !.runnerID = runnerID,
                        !.escrowReleasedAt = now,
                        !.updatedAt = now]]

\* Refund without its status guard
RefundUnguarded(p, reason, now) ==
  [err |-> Nil,
   p |-> [p EXCEPT !.escrowStatus = EscrowRefunded,
                   !.refundedAt = now,
                   !.refundReason = reason,
                   !.updatedAt = now]]

\* Refund that also takes a released payment back
RefundOfReleased(p, reason, now) ==
  IF p.escrowStatus \notin {EscrowHeld, EscrowReleased}
  THEN [err |-> InvalidStateError(p.escrowStatus, EscrowRefunded), p |-> p]
  ELSE [err |-> Nil,
        p |-> [p EXCEPT !.escrowStatus = EscrowRefunded,
                        !.refundedAt = now,
                        !.refundReason = reason,
                        !.updatedAt = now]]

Refund(p, reason, now) ==
  IF p.escrowStatus # EscrowHeld
  THEN [err |-> InvalidStateError(p.escrowStatus, EscrowRefunded), p |-> p]
  ELSE [err |-> Nil,
        p |-> [p EXCEPT !.escrowStatus = EscrowRefunded,
                        !.refundedAt = now,
                        !.refundReason = reason,
                        !.updatedAt = now]]

\* Fail that records the reason before it looks at the status
FailReasonFirst(p, reason, now) ==
  IF p.escrowStatus \in {EscrowReleased, EscrowRefunded, EscrowFailed}
  THEN [err |-> InvalidStateError(p.escrowStatus, EscrowFailed),
        p |-> [p EXCEPT !.refundReason = reason]]
  ELSE [err |-> Nil,
        p |-> [p EXCEPT !.escrowStatus = EscrowFailed,
                        !.refundReason = reason,
                        !.updatedAt = now]]

Fail(p, reason, now) ==
  IF p.escrowStatus \in {EscrowReleased, EscrowRefunded, EscrowFailed}
  THEN [err |-> InvalidStateError(p.escrowStatus, EscrowFailed), p |-> p]
  ELSE [err |-> Nil,
        p |-> [p EXCEPT !.escrowStatus = EscrowFailed,
                        !.refundReason = reason,
                        !.updatedAt = now]]

IncrementVersion(p, now) == [p EXCEPT !.version = @ + 1, !.updatedAt = now]

\* ------------------------------------------------- int64 and float64 values
\* a non-negative integer of any size is the sequence of its binary digits, lowest
\* first and without high zeros: the amounts of NewPayment are int64 values and its
\* fee is computed in float64, whose significand holds 53 binary digits
RECURSIVE ToBits(_)
ToBits(n) == IF n = 0 THEN <<>> ELSE <<n % 2>> \o ToBits(n \div 2)

\* the highest index of a set of indices
Top(s) == CHOOSE i \in s : \A j \in s : j <= i

Norm(b) ==
  LET ones == {i \in 1 .. Len(b) : b[i] = 1}
  IN IF ones = {} THEN <<>> ELSE SubSeq(b, 1, Top(ones))

\* b * 2^k
Shl(b, k) == IF b = <<>> THEN <<>> ELSE [i \in 1 .. k |-> 0] \o b

\* b \div 2^k
Shr(b, k) == IF Len(b) <= k THEN <<>> ELSE SubSeq(b, k + 1, Len(b))

\* digit i of b, 0 above its length
Bit(b, i) == IF i <= Len(b) THEN b[i] ELSE 0

\* a + b + carry for a carry of 0 or 1: the carry into digit i comes from the
\* nearest lower digit where both are 1, or from the carry put in, through digits
\* where exactly one is 1
AddBits(a, b, carry) ==
  LET n == (IF Len(a) > Len(b) THEN Len(a) ELSE Len(b)) + 1
      Through(j, i) == \A k \in j + 1 .. i - 1 : Bit(a, k) + Bit(b, k) = 1
      CarryIn(i) ==
        IF \/ \E j \in 1 .. i - 1 : Bit(a, j) + Bit(b, j) = 2 /\ Through(j, i)
           \/ carry = 1 /\ Through(0, i)
        THEN 1 ELSE 0
  IN Norm([i \in 1 .. n |-> (Bit(a, i) + Bit(b, i) + CarryIn(i)) % 2])

\* a - b for a >= b: digit i borrows when the nearest lower digit where a and b
\* differ has a below b
SubBits(a, b) ==
  LET BorrowIn(i) ==
        IF \E j \in 1 .. i - 1 :
             /\ Bit(a, j) < Bit(b, j)
             /\ \A k \in j + 1 .. i - 1 : Bit(a, k) = Bit(b, k)
        THEN 1 ELSE 0
  IN Norm([i \in 1 .. Len(a) |-> (Bit(a, i) - Bit(b, i) - BorrowIn(i)) % 2])

\* a < b, at the highest digit where they differ
LessBits(a, b) ==
  LET n == IF Len(a) > Len(b) THEN Len(a) ELSE Len(b)
      differ == {i \in 1 .. n : Bit(a, i) # Bit(b, i)}
  IN differ # {} /\ Bit(a, Top(differ)) < Bit(b, Top(differ))

\* b * m for a small whole number m: b shifted to every binary digit of m, summed
RECURSIVE MulSmallAt(_, _, _)
MulSmallAt(b, m, k) ==
  IF m = 0 THEN <<>>
  ELSE AddBits(IF m % 2 = 1 THEN Shl(b, k) ELSE <<>>, MulSmallAt(b, m \div 2, k + 1), 0)

MulSmall(b, m) == MulSmallAt(b, m, 0)

\* 2^k % d
RECURSIVE Pow2Mod(_, _)
Pow2Mod(k, d) ==
  IF k = 0 THEN 1 % d
  ELSE LET h == Pow2Mod(k \div 2, d)
       IN (h * h * (IF k % 2 = 1 THEN 2 ELSE 1)) % d

\* b % d for a small whole number d, by halves
RECURSIVE ModBits(_, _)
ModBits(b, d) ==
  IF b = <<>> THEN 0
  ELSE IF Len(b) = 1 THEN b[1] % d
  ELSE LET h == Len(b) \div 2
       IN (ModBits(SubSeq(b, 1, h), d)
             + Pow2Mod(h, d) * ModBits(SubSeq(b, h + 1, Len(b)), d)) % d

\* quotient and remainder of b by a small whole number d, by long division: the
\* digit at i is what the remainder of the digits above i, doubled, and digit i hold
DivRem(b, d) ==
  [q |-> [i \in 1 .. Len(b) |-> (2 * ModBits(Shr(b, i), d) + b[i]) \div d],
   r |-> ModBits(b, d)]

SignificandBits == 53

\* round to nearest, ties to even, to a value of SignificandBits binary digits;
\* sticky tells that the exact value lies above b by less than one unit
RoundToFloat64(b, sticky) ==
  IF Len(b) <= SignificandBits
  THEN b
  ELSE LET shift == Len(b) - SignificandBits
           q == Shr(b, shift)
           guard == b[shift]
           rest == sticky \/ \E i \in 1 .. shift - 1 : b[i] = 1
           up == guard = 1 /\ (rest \/ q[1] = 1)
       IN Shl(IF up THEN AddBits(q, <<1>>, 0) ELSE q, shift)

\* float64(amountCents)
Float64(b) == RoundToFloat64(b, FALSE)

\* x * feePercent in float64, for a whole-number feePercent
Float64Mul(x, feePercent) == RoundToFloat64(Norm(MulSmall(x, feePercent)), FALSE)

\* the dividend of x / 100.0 is scaled to this many binary digits, so that the
\* quotient has more digits than the significand keeps
DividendBits == 61

\* int64(x / 100.0): the float64 quotient, truncated toward zero
Int64OfFloat64Div100(x) ==
  LET scale == IF Len(x) >= DividendBits THEN 0 ELSE DividendBits - Len(x)
      d == DivRem(Shl(x, scale), 100)
  IN Norm(Shr(RoundToFloat64(Norm(d.q), d.r # 0), scale))

\* platformFeeCents := int64(float64(amountCents) * feePercent / 100.0)
PlatformFeeFloat64(amountCents, feePercent) ==
  Int64OfFloat64Div100(Float64Mul(Float64(amountCents), feePercent))

\* a - b as an int64 for non-negative a, b: sign and magnitude
Int64Sub(a, b) ==
  IF LessBits(a, b) THEN [neg |-> TRUE, mag |-> SubBits(b, a)]
  ELSE [neg |-> FALSE, mag |-> SubBits(a, b)]

\* the amounts NewPayment derives, for an int64 amount of any size
NewPaymentAmounts(amountCents, feePercent) ==
  LET platformFeeCents == PlatformFeeFloat64(amountCents, feePercent)
  IN [amountCents |-> amountCents,
      platformFeeCents |-> platformFeeCents,
      runnerPayoutCents |-> Int64Sub(amountCents, platformFeeCents)]

\* -------------------------------------------------------------- repository
Columns ==
  {"id", "bookingID", "runnerID", "escrowStatus", "amountCents", "platformFeeCents",
   "runnerPayoutCents", "currency", "stripePaymentID", "escrowHeldAt",
   "escrowReleasedAt", "refundedAt", "refundReason", "version", "updatedAt"}

toModel(p) == [c \in Columns |-> p[c]]

toDomain(model) == [c \in Columns |-> model[c]]

\* the zero value of a column's Go type: gorm's Updates(struct) skips such fields
IsZero(c, v) ==
  CASE c \in {"runnerID"} -> v = NoRunner
    [] c \in {"escrowHeldAt", "escrowReleasedAt", "refundedAt", "updatedAt"} -> v = NoTime
    [] c \in {"stripePaymentID"} -> v = EmptyRef
    [] c \in {"refundReason"} -> v = EmptyString
    [] c \in {"escrowStatus", "currency", "bookingID"} -> v = ""
    [] OTHER -> v = 0

Exists(st, id) == id \in DOMAIN st /\ st[id] # NoRow

FindByID(st, id) ==
  IF Exists(st, id)
  THEN [err |-> Nil, p |-> toDomain(st[id])]
  ELSE [err |-> NotFoundError, p |-> NoP]

FindByBookingID(st, bookingID) ==
  LET hits == {id \in DOMAIN st : st[id] # NoRow /\ st[id].bookingID = bookingID}
  IN IF hits = {}
     THEN [err |-> NotFoundError, p |-> NoP]
     ELSE [err |-> Nil, p |-> toDomain(st[CHOOSE id \in hits : TRUE])]

\* Save without the unique index on booking_id
SaveNoUniqueBooking(st, payment) ==
  LET model == toModel(payment)
  IN IF Exists(st, model.id)
     THEN [err |-> Err("UniqueViolation"), st |-> st]
     ELSE [err |-> Nil, st |-> [st EXCEPT ![model.id] = model]]

\* INSERT; booking_id UUID UNIQUE and the primary key reject a duplicate
Save(st, payment) ==
  LET model == toModel(payment)
  IN IF \/ Exists(st, model.id)
        \/ \E id \in DOMAIN st : st[id] # NoRow /\ st[id].bookingID = model.bookingID
     THEN [err |-> Err("UniqueViolation"), st |-> st]
     ELSE [err |-> Nil, st |-> [st EXCEPT ![model.id] = model]]

\* Update without the version predicate in its WHERE clause
UpdateUnconditional(st, payment) ==
  LET model == toModel(payment)
  IN IF Exists(st, model.id)
     THEN [err |-> Nil,
           st |-> [st EXCEPT ![model.id] =
                     [c \in Columns |-> IF IsZero(c, model[c]) THEN @[c] ELSE model[c]]]]
     ELSE [err |-> ConflictError, st |-> st]

\* Update matching the aggregate's own version instead of the previous one
UpdateSameVersion(st, payment) ==
  LET model == toModel(payment)
  IN IF Exists(st, model.id) /\ st[model.id].version = payment.version
     THEN [err |-> Nil,
           st |-> [st EXCEPT ![model.id] =
                     [c \in Columns |-> IF IsZero(c, model[c]) THEN @[c] ELSE model[c]]]]
     ELSE [err |-> ConflictError, st |-> st]

\* Update that leaves the version column out of its SET clause
UpdateKeepsVersion(st, payment) ==
  LET model == toModel(payment)
      previousVersion == payment.version - 1
  IN IF Exists(st, model.id) /\ st[model.id].version = previousVersion
     THEN [err |-> Nil,
           st |-> [st EXCEPT ![model.id] =
                     [c \in Columns |-> IF IsZero(c, model[c]) \/ c = "version"
                                        THEN @[c] ELSE model[c]]]]
     ELSE [err |-> ConflictError, st |-> st]

\* Update whose SET clause leaves out runner_id
UpdateSkipsRunnerID(st, payment) ==
  LET model == toModel(payment)
      previousVersion == payment.version - 1
  IN IF Exists(st, model.id) /\ st[model.id].version = previousVersion
     THEN [err |-> Nil,
           st |-> [st EXCEPT ![model.id] =
                     [c \in Columns |-> IF IsZero(c, model[c]) \/ c = "runnerID"
                                        THEN @[c] ELSE model[c]]]]
     ELSE [err |-> ConflictError, st |-> st]

\* UPDATE payments SET <non-zero fields> WHERE id = ? AND version = ?
Update(st, payment) ==
  LET model == toModel(payment)
      previousVersion == payment.version - 1
  IN IF Exists(st, model.id) /\ st[model.id].version = previousVersion
     THEN [err |-> Nil,
           st |-> [st EXCEPT ![model.id] =
                     [c \in Columns |-> IF IsZero(c, model[c]) THEN @[c] ELSE model[c]]]]
     ELSE [err |-> ConflictError, st |-> st]

\* ------------------------------------------------------------ saga tables
\* sagas that publish before they persist the transition
StepNamesPublishFirst(saga) ==
  CASE saga = "create_escrow" ->
         <<"save_payment", "create_stripe_payment_intent", "publish_escrow_held_event",
           "hold_escrow">>
    [] saga = "release_escrow" ->
         <<"capture_stripe_payment", "publish_escrow_released_event", "release_to_runner">>
    [] saga = "refund_escrow" ->
         <<"cancel_stripe_payment", "publish_escrow_refunded_event", "refund_in_domain">>
    [] OTHER -> <<>>

\* the steps each saga adds with AddStep, in order
StepNames(saga) ==
  CASE saga = "create_escrow" ->
         <<"save_payment", "create_stripe_payment_intent", "hold_escrow",
           "publish_escrow_held_event">>
    [] saga = "release_escrow" ->
         <<"capture_stripe_payment", "release_to_runner", "publish_escrow_released_event">>
    [] saga = "refund_escrow" ->
         <<"cancel_stripe_payment", "refund_in_domain", "publish_escrow_refunded_event">>
    [] OTHER -> <<>>

\* a hold saga whose create_stripe_payment_intent step has no compensation
HasCompensateNoIntent(saga, i) ==
  StepNames(saga)[i] \in {"save_payment", "hold_escrow", "capture_stripe_payment"}

\* a release saga whose capture step has no compensation
HasCompensateNoCapture(saga, i) ==
  StepNames(saga)[i] \in {"save_payment", "create_stripe_payment_intent", "hold_escrow"}

\* SagaStep.Compensate != nil
HasCompensate(saga, i) ==
  StepNames(saga)[i] \in {"save_payment", "create_stripe_payment_intent", "hold_escrow",
                          "capture_stripe_payment"}

\* for i := ...; i >= 0; i-- { if compensateStep.Compensate != nil {...} }:
\* the next index at or below i whose step has a compensation, 0 when the walk ends
RECURSIVE NextCompensable(_, _)
NextCompensable(saga, i) ==
  IF i <= 0 THEN 0
  ELSE IF HasCompensate(saga, i) THEN i
  ELSE NextCompensable(saga, i - 1)

\* a reverse walk that starts at the failing step itself
FirstCompensationAtFailed(saga, k) == NextCompensable(saga, k)

\* where the reverse walk starts when step k failed: executedSteps holds steps 1..k-1
FirstCompensation(saga, k) == NextCompensable(saga, k - 1)

\* a reverse walk that a failing compensation aborts
AfterCompensationAbort(saga, i, compErr) ==
  IF compErr # Nil THEN 0 ELSE NextCompensable(saga, i - 1)

\* where the walk goes after the compensation of step i returned compErr
AfterCompensation(saga, i, compErr) == NextCompensable(saga, i - 1)

\* --------------------------------------------------------------- the state
VARIABLES
  store,       \* payments table: PaymentIDs -> row or NoRow
  gwCalls,     \* gateway: invocations per <<operation, payment intent>>
  gwOks,       \* gateway: successful invocations per <<operation, payment intent>>
  published,   \* payment.events, in publication order
  task,        \* per task: the running operation, its locals and its trace
  nextID,      \* uuid.New() for payments
  nextRef,     \* uuid.New() for payment intents
  opCount,     \* operations started
  faults,      \* errors injected
  history      \* the operations that returned: their final task records

vars == <<store, gwCalls, gwOks, published, task, nextID, nextRef, opCount, faults, history>>

GwOps == {"authorize", "capture", "void", "refund"}

Idle ==
  [op |-> "none", pc |-> "idle", bookingID |-> "", runnerID |-> NoRunner, reason |-> EmptyString,
   amountCents |-> 0, currency |-> "", paymentID |-> 0,
   saga |-> "", step |-> 0, ci |-> 0, p |-> NoP, stripePaymentID |-> EmptyRef,
   err |-> Nil, result |-> Nil, returned |-> NoP,
   cause |-> Nil,
   \* trace of the running operation
   stamp |-> 0, found |-> NoRow, loaded |-> NoRow, saveSaw |-> FALSE,
   execLog |-> <<>>, compLog |-> <<>>, gwLog |-> <<>>, pubLog |-> <<>>, updLog |-> <<>>,
   saved |-> FALSE, myFaults |-> 0,
   \* the operation's context.Context was cancelled
   ctxDone |-> FALSE]

Init ==
  /\ store = [id \in PaymentIDs |-> NoRow]
  /\ gwCalls = [x \in GwOps \X Refs |-> 0]
  /\ gwOks = [x \in GwOps \X Refs |-> 0]
  /\ published = <<>>
  /\ task = [t \in Tasks |-> Idle]
  /\ nextID = 1
  /\ nextRef = 1
  /\ opCount = 0
  /\ faults = 0
  /\ history = {}

\* an I/O call either succeeds or returns an injected error
Outcomes == IF faults < MaxFaults THEN {TRUE, FALSE} ELSE {TRUE}
Cost(ok) == IF ok THEN 0 ELSE 1
ChargeTask(tk, ok) == [tk EXCEPT !.myFaults = @ + Cost(ok)]

\* a store or bus call made with a cancelled context returns the context's error
CtxOutcomes(tk) == IF tk.ctxDone THEN {FALSE} ELSE Outcomes
CtxCost(tk, ok) == IF tk.ctxDone THEN 0 ELSE Cost(ok)
CtxErr(tk, kind) == IF tk.ctxDone THEN Err("Canceled") ELSE Err(kind)

GatewayCall(op, ref, ok) ==
  /\ gwCalls' = [gwCalls EXCEPT ![<<op, ref>>] = @ + 1]
  /\ gwOks' = [gwOks EXCEPT ![<<op, ref>>] = IF ok THEN @ + 1 ELSE @]

\* the task's side of a gateway call
GwTrace(tk, op, ref, amountCents, ok) ==
  [ChargeTask(tk, ok) EXCEPT
     !.gwLog = Append(@, [op |-> op, ref |-> ref, amountCents |-> amountCents, ok |-> ok])]

\* s.producer.PublishEvent(ctx, events.TopicPaymentEvents, cloudEvent)
PublishEvent(event, ok) == published' = IF ok THEN Append(published, event) ELSE published

PubTrace(tk, event, ok) ==
  [ChargeTask(tk, ok) EXCEPT !.pubLog = Append(@, [type |-> event.type, ok |-> ok])]

Now(tk) == tk.stamp

\* ---------------------------------------------------------- Saga.Execute
CurrentStep(tk) == StepNames(tk.saga)[tk.step]

AtStep(t, saga, name) ==
  /\ task[t].pc = "exec"
  /\ task[t].saga = saga
  /\ CurrentStep(task[t]) = name

AtCompensation(t, saga, name) ==
  /\ task[t].pc = "comp"
  /\ task[t].saga = saga
  /\ StepNames(saga)[task[t].ci] = name

\* the saga ran every step: what its caller does with the nil error
Completed(tk) ==
  CASE tk.op = "initiate" -> [tk EXCEPT !.pc = "done", !.result = Nil, !.returned = tk.p]
    [] tk.op = "refund" -> [tk EXCEPT !.pc = "reload"]
    [] OTHER -> [tk EXCEPT !.pc = "done", !.result = Nil]

\* a step loop that notes the error of a failed step and goes on to the next step
AfterExecuteKeepsGoing(tk0, err) ==
  LET tk == [tk0 EXCEPT !.execLog = Append(@, CurrentStep(tk0))]
  IN IF tk.step = Len(StepNames(tk.saga))
     THEN IF err = Nil /\ tk.err = Nil
          THEN Completed(tk)
          ELSE [tk EXCEPT !.err = IF err = Nil THEN @ ELSE Wrap(tk.saga, CurrentStep(tk), err),
                          !.ci = 0, !.pc = "failed"]
     ELSE [tk EXCEPT !.step = @ + 1,
                     !.err = IF err = Nil THEN @ ELSE Wrap(tk.saga, CurrentStep(tk), err)]

\* the loop body after step.Execute(ctx) returned err
AfterExecute(tk0, err) ==
  LET tk == [tk0 EXCEPT !.execLog = Append(@, CurrentStep(tk0))]
  IN IF err = Nil
     THEN IF tk.step = Len(StepNames(tk.saga))
          THEN Completed(tk)
          ELSE [tk EXCEPT !.step = @ + 1]
     ELSE LET first == FirstCompensation(tk.saga, tk.step)
              w == [tk EXCEPT !.err = Wrap(tk.saga, CurrentStep(tk), err), !.ci = first,
                              !.cause = err]
          IN IF first = 0 THEN [w EXCEPT !.pc = "failed"] ELSE [w EXCEPT !.pc = "comp"]

\* the compensation loop body after compensateStep.Compensate(ctx) returned compErr
AfterCompensate(tk0, compErr) ==
  LET tk == [tk0 EXCEPT !.compLog =
                          Append(@, [step |-> StepNames(tk0.saga)[tk0.ci], err |-> compErr])]
      next == AfterCompensation(tk.saga, tk.ci, compErr)
  IN IF next = 0 THEN [tk EXCEPT !.ci = 0, !.pc = "failed"] ELSE [tk EXCEPT !.ci = next]

\* tasks are interchangeable: the running operations occupy the lowest tasks, and a
\* new operation takes the lowest free one
Compact(f) ==
  IF f[1].pc = "idle" THEN [u \in Tasks |-> IF u = 1 THEN f[2] ELSE f[1]]
  ELSE f

\* the task's next record; an operation that returned leaves its record in history
\* and frees the task
Set(t, tk) ==
  IF tk.pc = "done"
  THEN /\ task' = Compact([task EXCEPT ![t] = Idle])
       /\ history' = history \cup {tk}
  ELSE /\ task' = [task EXCEPT ![t] = tk]
       /\ history' = history

Free(t) ==
  /\ task[t].pc = "idle"
  /\ \A u \in Tasks : task[u].pc = "idle" => t <= u
  /\ opCount < MaxOps

\* an Update whose error arrives after the statement took effect
RepoUpdateErrAfterWrite(tk, p, ok) ==
  LET w == Update(store, p)
      r == IF ok THEN w ELSE [err |-> CtxErr(tk, "DB"), st |-> w.st]
  IN [err |-> r.err, st |-> r.st,
      tk |-> [ChargeTask(tk, ok) EXCEPT
                !.p = p,
                !.updLog = Append(@, [version |-> p.version,
                                      wrote |-> p.escrowStatus,
                                      stored |-> store[p.id],
                                      err |-> r.err])]]

\* s.repo.Update(ctx, p) issued by task record tk; fault = the database returns an error
RepoUpdate(tk, p, ok) ==
  LET r == IF ok THEN Update(store, p) ELSE [err |-> CtxErr(tk, "DB"), st |-> store]
  IN [err |-> r.err, st |-> r.st,
      tk |-> [ChargeTask(tk, ok) EXCEPT
                !.p = p,
                !.updLog = Append(@, [version |-> p.version,
                                      wrote |-> p.escrowStatus,
                                      stored |-> store[p.id],
                                      err |-> r.err])]]

\* ------------------------------------------------------- CreateEscrowSaga
\* step save_payment: s.repo.Save(ctx, p) issued by task record tk
StepSavePayment(tk, ok) ==
  LET r == IF ok THEN Save(store, tk.p) ELSE [err |-> Err("DB"), st |-> store]
      seen == FindByBookingID(store, tk.p.bookingID).err = Nil
  IN [err |-> r.err, st |-> r.st,
      tk |-> [ChargeTask(tk, ok) EXCEPT !.saveSaw = seen, !.saved = (r.err = Nil)]]

\* PaymentService.InitiatePayment -> CreateEscrowSaga -> saga.Execute, through the
\* first step's Save
InitiatePayment(t, bookingID, amountCents, currency) ==
  /\ Free(t)
  /\ \E ok \in Outcomes :
       LET tk == [Idle EXCEPT !.op = "initiate", !.pc = "exec",
                              !.bookingID = bookingID, !.amountCents = amountCents,
                              !.currency = currency, !.paymentID = nextID,
                              !.saga = "create_escrow", !.step = 1, !.stamp = opCount + 1,
                              !.p = NewPayment(nextID, bookingID, amountCents, currency,
                                               PlatformFeePercent, opCount + 1)]
           s == StepSavePayment(tk, ok)
       IN /\ store' = s.st
          /\ Set(t, AfterExecute(s.tk, s.err))
          /\ faults' = faults + Cost(ok)
  /\ nextID' = nextID + 1
  /\ opCount' = opCount + 1
  /\ UNCHANGED <<gwCalls, gwOks, published, nextRef>>

CompSavePayment(t) ==
  /\ AtCompensation(t, "create_escrow", "save_payment")
  /\ \E ok \in CtxOutcomes(task[t]) :
       LET tk == task[t]
           f == Fail(tk.p, <<"saga compensation: escrow creation failed">>, Now(tk))
           u == RepoUpdate(tk, f.p, ok)
       IN /\ store' = u.st
          /\ Set(t, AfterCompensate(u.tk, u.err))
          /\ faults' = faults + CtxCost(task[t], ok)
  /\ UNCHANGED <<gwCalls, gwOks, published, nextID, nextRef, opCount>>

StepCreateStripePaymentIntent(t) ==
  /\ AtStep(t, "create_escrow", "create_stripe_payment_intent")
  /\ \E ok \in Outcomes :
       LET tk == task[t]
           ref == IF ok THEN nextRef ELSE EmptyRef
       IN /\ GatewayCall("authorize", ref, ok)
          /\ nextRef' = IF ok THEN nextRef + 1 ELSE nextRef
          /\ Set(t, AfterExecute([GwTrace(tk, "authorize", ref, tk.amountCents, ok) EXCEPT
                                    !.stripePaymentID = ref],
                                 IF ok THEN Nil ELSE Err("Gateway")))
          /\ faults' = faults + Cost(ok)
  /\ UNCHANGED <<store, published, nextID, opCount>>

CompCreateStripePaymentIntent(t) ==
  /\ AtCompensation(t, "create_escrow", "create_stripe_payment_intent")
  /\ LET tk == task[t]
     IN IF tk.stripePaymentID # EmptyRef
        THEN \E ok \in Outcomes :
               /\ GatewayCall("void", tk.stripePaymentID, ok)
               /\ Set(t, AfterCompensate(GwTrace(tk, "void", tk.stripePaymentID, 0, ok),
                                         IF ok THEN Nil ELSE Err("Gateway")))
               /\ faults' = faults + Cost(ok)
        ELSE /\ Set(t, AfterCompensate(tk, Nil))
             /\ UNCHANGED <<gwCalls, gwOks, faults>>
  /\ UNCHANGED <<store, published, nextID, nextRef, opCount>>

StepHoldEscrow(t) ==
  /\ AtStep(t, "create_escrow", "hold_escrow")
  /\ LET tk == task[t]
         h == HoldEscrow(tk.p, tk.stripePaymentID, Now(tk))
     IN IF h.err # Nil
        THEN /\ Set(t, AfterExecute(tk, h.err))
             /\ UNCHANGED <<store, faults>>
        ELSE \E ok \in CtxOutcomes(task[t]) :
               LET u == RepoUpdate(tk, IncrementVersion(h.p, Now(tk)), ok)
               IN /\ store' = u.st
                  /\ Set(t, AfterExecute(u.tk, u.err))
                  /\ faults' = faults + CtxCost(task[t], ok)
  /\ UNCHANGED <<gwCalls, gwOks, published, nextID, nextRef, opCount>>

CompHoldEscrow(t) ==
  /\ AtCompensation(t, "create_escrow", "hold_escrow")
  /\ \E okVoid \in Outcomes, okUpdate \in CtxOutcomes(task[t]) :
       /\ faults + Cost(okVoid) + CtxCost(task[t], okUpdate) <= MaxFaults
       /\ LET tk == GwTrace(task[t], "void", task[t].stripePaymentID, 0, okVoid)
              f == Fail(tk.p, <<"saga compensation: hold escrow failed">>, Now(tk))
              u == RepoUpdate(tk, f.p, okUpdate)
          IN /\ GatewayCall("void", tk.stripePaymentID, okVoid)
             /\ store' = u.st
             /\ Set(t, AfterCompensate(u.tk, u.err))
             /\ faults' = faults + Cost(okVoid) + CtxCost(task[t], okUpdate)
  /\ UNCHANGED <<published, nextID, nextRef, opCount>>

EscrowHeldEvent(p) ==
  [type |-> "payment.escrow_held", paymentID |-> p.id, bookingID |-> p.bookingID,
   stripePaymentID |-> p.stripePaymentID, amountCents |-> p.amountCents,
   currency |-> p.currency]

StepPublishEscrowHeld(t) ==
  /\ AtStep(t, "create_escrow", "publish_escrow_held_event")
  /\ \E ok \in CtxOutcomes(task[t]) :
       LET tk == task[t]
           event == EscrowHeldEvent(tk.p)
       IN /\ PublishEvent(event, ok)
          /\ Set(t, AfterExecute(PubTrace(tk, event, ok), IF ok THEN Nil ELSE CtxErr(tk, "Bus")))
          /\ faults' = faults + CtxCost(task[t], ok)
  /\ UNCHANGED <<store, gwCalls, gwOks, nextID, nextRef, opCount>>

PaymentFailedEvent(paymentID, bookingID, reason) ==
  [type |-> "payment.escrow_failed", paymentID |-> paymentID, bookingID |-> bookingID,
   reason |-> reason]

\* if err := saga.Execute(ctx); err != nil { s.publishFailedEvent(...); return err }
PublishFailedEvent(t) ==
  /\ task[t].pc = "failed"
  /\ \E ok \in CtxOutcomes(task[t]) :
       LET tk == task[t]
           event == PaymentFailedEvent(tk.p.id, tk.p.bookingID, tk.err)
       IN /\ PublishEvent(event, ok)
          /\ Set(t, [PubTrace(tk, event, ok) EXCEPT !.pc = "done", !.result = tk.err])
          /\ faults' = faults + CtxCost(task[t], ok)
  /\ UNCHANGED <<store, gwCalls, gwOks, nextID, nextRef, opCount>>

\* ------------------------------------------------------ ReleaseEscrowSaga
\* p, err := s.repo.FindByID(ctx, paymentID); if err != nil { return err }
\* at the head of ReleaseEscrowSaga and of RefundEscrowSaga
LoadPayment(tk0, ok) ==
  LET tk == ChargeTask(tk0, ok)
      r == IF ok THEN FindByID(store, tk.paymentID) ELSE [err |-> CtxErr(tk, "DB"), p |-> NoP]
  IN IF r.err # Nil
     THEN [tk EXCEPT !.pc = "done", !.result = r.err]
     ELSE [tk EXCEPT !.pc = "exec", !.step = 1, !.p = r.p, !.loaded = store[tk.paymentID]]

ReleaseEscrowSaga(t) ==
  /\ task[t].pc = "load"
  /\ task[t].saga = "release_escrow"
  /\ \E ok \in CtxOutcomes(task[t]) :
       /\ Set(t, LoadPayment(task[t], ok))
       /\ faults' = faults + CtxCost(task[t], ok)
  /\ UNCHANGED <<store, gwCalls, gwOks, published, nextID, nextRef, opCount>>

StepCaptureStripePayment(t) ==
  /\ AtStep(t, "release_escrow", "capture_stripe_payment")
  /\ \E ok \in Outcomes :
       LET tk == task[t]
       IN /\ GatewayCall("capture", tk.p.stripePaymentID, ok)
          /\ Set(t, AfterExecute(GwTrace(tk, "capture", tk.p.stripePaymentID, 0, ok),
                                 IF ok THEN Nil ELSE Err("Gateway")))
          /\ faults' = faults + Cost(ok)
  /\ UNCHANGED <<store, published, nextID, nextRef, opCount>>

CompCaptureStripePayment(t) ==
  /\ AtCompensation(t, "release_escrow", "capture_stripe_payment")
  /\ \E ok \in Outcomes :
       LET tk == task[t]
       IN /\ GatewayCall("refund", tk.p.stripePaymentID, ok)
          /\ Set(t, AfterCompensate(
                      GwTrace(tk, "refund", tk.p.stripePaymentID, tk.p.amountCents, ok),
                      IF ok THEN Nil ELSE Err("Gateway")))
          /\ faults' = faults + Cost(ok)
  /\ UNCHANGED <<store, published, nextID, nextRef, opCount>>

StepReleaseToRunner(t) ==
  /\ AtStep(t, "release_escrow", "release_to_runner")
  /\ LET tk == task[t]
         h == ReleaseToRunner(tk.p, tk.runnerID, Now(tk))
     IN IF h.err # Nil
        THEN /\ Set(t, AfterExecute(tk, h.err))
             /\ UNCHANGED <<store, faults>>
        ELSE \E ok \in CtxOutcomes(task[t]) :
               LET u == RepoUpdate(tk, IncrementVersion(h.p, Now(tk)), ok)
               IN /\ store' = u.st
                  /\ Set(t, AfterExecute(u.tk, u.err))
                  /\ faults' = faults + CtxCost(task[t], ok)
  /\ UNCHANGED <<gwCalls, gwOks, published, nextID, nextRef, opCount>>

\* a released event with the payout and the fee exchanged
EscrowReleasedEventSwapped(p, runnerID) ==
  [type |-> "payment.escrow_released", paymentID |-> p.id, bookingID |-> p.bookingID,
   runnerID |-> runnerID, runnerPayout |-> p.platformFeeCents,
   platformFee |-> p.runnerPayoutCents, currency |-> p.currency]

EscrowReleasedEvent(p, runnerID) ==
  [type |-> "payment.escrow_released", paymentID |-> p.id, bookingID |-> p.bookingID,
   runnerID |-> runnerID, runnerPayout |-> p.runnerPayoutCents,
   platformFee |-> p.platformFeeCents, currency |-> p.currency]

StepPublishEscrowReleased(t) ==
  /\ AtStep(t, "release_escrow", "publish_escrow_released_event")
  /\ \E ok \in CtxOutcomes(task[t]) :
       LET tk == task[t]
           event == EscrowReleasedEvent(tk.p, tk.runnerID)
       IN /\ PublishEvent(event, ok)
          /\ Set(t, AfterExecute(PubTrace(tk, event, ok), IF ok THEN Nil ELSE CtxErr(tk, "Bus")))
          /\ faults' = faults + CtxCost(task[t], ok)
  /\ UNCHANGED <<store, gwCalls, gwOks, nextID, nextRef, opCount>>

\* ------------------------------------------------------- RefundEscrowSaga
\* entered from HandleBookingCancelled
RefundEscrowSaga(t) ==
  /\ task[t].pc = "load"
  /\ task[t].saga = "refund_escrow"
  /\ \E ok \in CtxOutcomes(task[t]) :
       /\ Set(t, LoadPayment(task[t], ok))
       /\ faults' = faults + CtxCost(task[t], ok)
  /\ UNCHANGED <<store, gwCalls, gwOks, published, nextID, nextRef, opCount>>

StepCancelStripePayment(t) ==
  /\ AtStep(t, "refund_escrow", "cancel_stripe_payment")
  /\ \E ok \in Outcomes :
       LET tk == task[t]
       IN /\ GatewayCall("void", tk.p.stripePaymentID, ok)
          /\ Set(t, AfterExecute(GwTrace(tk, "void", tk.p.stripePaymentID, 0, ok),
                                 IF ok THEN Nil ELSE Err("Gateway")))
          /\ faults' = faults + Cost(ok)
  /\ UNCHANGED <<store, published, nextID, nextRef, opCount>>

StepRefundInDomain(t) ==
  /\ AtStep(t, "refund_escrow", "refund_in_domain")
  /\ LET tk == task[t]
         h == Refund(tk.p, tk.reason, Now(tk))
     IN IF h.err # Nil
        THEN /\ Set(t, AfterExecute(tk, h.err))
             /\ UNCHANGED <<store, faults>>
        ELSE \E ok \in CtxOutcomes(task[t]) :
               LET u == RepoUpdate(tk, IncrementVersion(h.p, Now(tk)), ok)
               IN /\ store' = u.st
                  /\ Set(t, AfterExecute(u.tk, u.err))
                  /\ faults' = faults + CtxCost(task[t], ok)
  /\ UNCHANGED <<gwCalls, gwOks, published, nextID, nextRef, opCount>>

EscrowRefundedEvent(p, reason) ==
  [type |-> "payment.escrow_refunded", paymentID |-> p.id, bookingID |-> p.bookingID,
   amountCents |-> p.amountCents, currency |-> p.currency, refundReason |-> reason]

StepPublishEscrowRefunded(t) ==
  /\ AtStep(t, "refund_escrow", "publish_escrow_refunded_event")
  /\ \E ok \in CtxOutcomes(task[t]) :
       LET tk == task[t]
           event == EscrowRefundedEvent(tk.p, tk.reason)
       IN /\ PublishEvent(event, ok)
          /\ Set(t, AfterExecute(PubTrace(tk, event, ok), IF ok THEN Nil ELSE CtxErr(tk, "Bus")))
          /\ faults' = faults + CtxCost(task[t], ok)
  /\ UNCHANGED <<store, gwCalls, gwOks, nextID, nextRef, opCount>>

\* --------------------------------------------------------- PaymentService
\* RefundPayment -> RefundEscrowSaga, through the saga's FindByID
RefundPayment(t, paymentID, reason) ==
  /\ Free(t)
  /\ \E ok \in Outcomes :
       /\ Set(t, LoadPayment([Idle EXCEPT !.op = "refund", !.pc = "load",
                                          !.saga = "refund_escrow",
                                          !.paymentID = paymentID, !.reason = reason,
                                          !.stamp = opCount + 1], ok))
       /\ faults' = faults + Cost(ok)
  /\ opCount' = opCount + 1
  /\ UNCHANGED <<store, gwCalls, gwOks, published, nextID, nextRef>>

\* RefundPayment after the saga returned nil: reload and return the snapshot
RefundPaymentReload(t) ==
  /\ task[t].pc = "reload"
  /\ \E ok \in CtxOutcomes(task[t]) :
       LET tk == ChargeTask(task[t], ok)
           r == IF ok THEN FindByID(store, tk.paymentID)
                      ELSE [err |-> CtxErr(tk, "DB"), p |-> NoP]
       IN /\ Set(t, [tk EXCEPT !.pc = "done", !.result = r.err, !.returned = r.p])
          /\ faults' = faults + CtxCost(task[t], ok)
  /\ UNCHANGED <<store, gwCalls, gwOks, published, nextID, nextRef, opCount>>

\* a handler that returns a missing payment's error to the consumer
IsNotFoundNever(err) == FALSE

\* domErr, ok := err.(*domain.DomainError); ok && domErr.Err == domain.ErrNotFound
IsNotFound(err) == err = NotFoundError

\* the consumer hands a booking.delivery_confirmed event to the service
HandleDeliveryConfirmed(t, bookingID, runnerID) ==
  /\ Free(t)
  /\ \E ok \in Outcomes :
       LET r == IF ok THEN FindByBookingID(store, bookingID)
                      ELSE [err |-> Err("DB"), p |-> NoP]
           tk == [ChargeTask(Idle, ok) EXCEPT
                    !.op = "deliver", !.bookingID = bookingID, !.runnerID = runnerID,
                    !.stamp = opCount + 1,
                    !.found = IF r.err = Nil THEN store[r.p.id] ELSE NoRow]
       IN /\ Set(t, IF r.err # Nil
                    THEN IF IsNotFound(r.err)
                         THEN [tk EXCEPT !.pc = "done", !.result = Nil]
                         ELSE [tk EXCEPT !.pc = "done", !.result = r.err]
                    ELSE [tk EXCEPT !.pc = "load", !.saga = "release_escrow",
                                    !.paymentID = r.p.id])
          /\ faults' = faults + Cost(ok)
  /\ opCount' = opCount + 1
  /\ UNCHANGED <<store, gwCalls, gwOks, published, nextID, nextRef>>

\* a refund reason that is the event's reason alone
CancelReasonBare(eventReason) == eventReason

\* reason := "booking cancelled: " + event.Reason
CancelReason(eventReason) == <<"booking cancelled: ">> \o eventReason

\* a cancel handler without the status check
RefundOnCancelAlways(p) == TRUE

\* a cancel handler that skips payments already refunded and no others
RefundOnCancelUnlessRefunded(p) == p.escrowStatus # EscrowRefunded

\* if p.EscrowStatus() == payment.EscrowHeld
RefundOnCancel(p) == p.escrowStatus = EscrowHeld

\* the consumer hands a booking.cancelled event to the service
HandleBookingCancelled(t, bookingID, eventReason) ==
  /\ Free(t)
  /\ \E ok \in Outcomes :
       LET r == IF ok THEN FindByBookingID(store, bookingID)
                      ELSE [err |-> Err("DB"), p |-> NoP]
           tk == [ChargeTask(Idle, ok) EXCEPT
                    !.op = "cancel", !.bookingID = bookingID,
                    !.stamp = opCount + 1,
                    !.found = IF r.err = Nil THEN store[r.p.id] ELSE NoRow]
       IN /\ Set(t, IF r.err # Nil
                    THEN IF IsNotFound(r.err)
                         THEN [tk EXCEPT !.pc = "done", !.result = Nil]
                         ELSE [tk EXCEPT !.pc = "done", !.result = r.err]
                    ELSE IF RefundOnCancel(r.p)
                         THEN [tk EXCEPT !.pc = "load", !.saga = "refund_escrow",
                                         !.paymentID = r.p.id,
                                         !.reason = CancelReason(eventReason)]
                         ELSE [tk EXCEPT !.pc = "done", !.result = Nil])
          /\ faults' = faults + Cost(ok)
  /\ opCount' = opCount + 1
  /\ UNCHANGED <<store, gwCalls, gwOks, published, nextID, nextRef>>

\* the context of a running operation is cancelled: the client of the request went
\* away, or the consumer's context was cancelled at shutdown
CancelContext(t) ==
  /\ task[t].pc # "idle"
  /\ ~task[t].ctxDone
  /\ task' = [task EXCEPT ![t].ctxDone = TRUE]
  /\ UNCHANGED <<store, gwCalls, gwOks, published, nextID, nextRef, opCount, faults, history>>

\* the payment ids requests name: those InitiatePayment has generated, stored or
\* not (an id never generated is found no more than one never stored)
IssuedIDs == {i \in PaymentIDs : i < nextID}

Next ==
  \E t \in Tasks :
    \/ \E b \in Bookings, a \in Amounts, c \in Currencies : InitiatePayment(t, b, a, c)
    \/ CompSavePayment(t)
    \/ StepCreateStripePaymentIntent(t)
    \/ CompCreateStripePaymentIntent(t)
    \/ StepHoldEscrow(t)
    \/ CompHoldEscrow(t)
    \/ StepPublishEscrowHeld(t)
    \/ PublishFailedEvent(t)
    \/ ReleaseEscrowSaga(t)
    \/ StepCaptureStripePayment(t)
    \/ CompCaptureStripePayment(t)
    \/ StepReleaseToRunner(t)
    \/ StepPublishEscrowReleased(t)
    \/ RefundEscrowSaga(t)
    \/ StepCancelStripePayment(t)
    \/ StepRefundInDomain(t)
    \/ StepPublishEscrowRefunded(t)
    \/ \E id \in IssuedIDs, r \in Reasons : RefundPayment(t, id, r)
    \/ RefundPaymentReload(t)
    \/ \E b \in Bookings, r \in Runners : HandleDeliveryConfirmed(t, b, r)
    \/ \E b \in Bookings, r \in Reasons : HandleBookingCancelled(t, b, r)

Spec == Init /\ [][Next]_vars

\* ------------------------------------------------------------ properties
Last(q) == q[Len(q)]

InitiatesOf(H) == {h \in H : h.op = "initiate"}

CountPublished(type, paymentID) ==
  Cardinality({i \in DOMAIN published :
                 published[i].type = type /\ published[i].paymentID = paymentID})

VoidedOwnIntent(h) ==
  \E i \in DOMAIN h.gwLog : h.gwLog[i].op = "void" /\ h.gwLog[i].ref = h.stripePaymentID

WroteHeld(h) ==
  \E i \in DOMAIN h.updLog : h.updLog[i].err = Nil /\ h.updLog[i].wrote = EscrowHeld

\* C1: when gateway.authorize fails during initiate, the row the saga saved is
\* stored as failed with a non-empty refund_reason once initiate has returned its
\* error, and the saga never stored it as held.
C1_AuthorizeFailureStoresFailed ==
  \A h \in InitiatesOf(history) :
    h.result.step = "create_stripe_payment_intent"
      => /\ store[h.paymentID] # NoRow
         /\ store[h.paymentID].escrowStatus = EscrowFailed
         /\ store[h.paymentID].refundReason # EmptyString
         /\ ~WroteHeld(h)

\* C2: when publishing EscrowHeld fails after held was persisted, the compensation
\* voids the authorization and the stored payment is failed, not held, once
\* initiate has returned its error.
C2_PublishFailureStoresFailed ==
  \A h \in InitiatesOf(history) :
    h.result.step = "publish_escrow_held_event"
      => /\ WroteHeld(h)
         /\ VoidedOwnIntent(h)
         /\ store[h.paymentID].escrowStatus = EscrowFailed

DeliveriesOf(H) == {h \in H : h.op = "deliver"}

\* an operation that changed nothing outside itself
NoEffect(h) ==
  /\ h.gwLog = <<>>
  /\ h.pubLog = <<>>
  /\ \A i \in DOMAIN h.updLog : h.updLog[i].err # Nil

\* C3: handling booking.delivery_confirmed for a booking whose payment exists but
\* is not held returns success without invoking the release saga, the gateway or
\* the bus, and without changing the stored row.
C3_DeliveryOfNonHeldIsNoOp ==
  \A h \in DeliveriesOf(history) :
    (h.found # NoRow /\ h.found.escrowStatus # EscrowHeld /\ h.myFaults = 0)
      => /\ h.result = Nil
         /\ h.loaded = NoRow
         /\ h.execLog = <<>>
         /\ NoEffect(h)

\* C4: handling booking.delivery_confirmed twice for the same held payment releases
\* once: after both deliveries the row is released with its version bumped exactly
\* once, one payment.escrow_released event is published and gateway.capture was
\* invoked exactly once for the payment's gateway_ref.
C4_DeliveryTwiceReleasesOnce ==
  \A h1 \in DeliveriesOf(history), h2 \in DeliveriesOf(history) :
    (/\ h1.stamp < h2.stamp
     /\ h1.myFaults = 0 /\ h2.myFaults = 0
     /\ h1.found # NoRow /\ h1.found.escrowStatus = EscrowHeld
     /\ h2.found # NoRow /\ h2.found.id = h1.found.id)
      => LET id == h1.found.id
         IN /\ store[id].escrowStatus = EscrowReleased
            /\ store[id].version = h1.found.version + 1
            /\ CountPublished("payment.escrow_released", id) = 1
            /\ gwCalls[<<"capture", h1.found.stripePaymentID>>] = 1

\* the release and refund sagas that ran to their return
SagasOf(H) == {h \in H : h.saga \in {"release_escrow", "refund_escrow"} /\ h.loaded # NoRow}

\* two sagas that loaded the same version of the same held payment and met no
\* I/O error of their own
Raced(h1, h2) ==
  /\ h1.stamp # h2.stamp
  /\ h1.loaded = h2.loaded
  /\ h1.loaded.escrowStatus = EscrowHeld
  /\ h1.myFaults = 0 /\ h2.myFaults = 0

UpdateStepOf(saga) == IF saga = "release_escrow" THEN "release_to_runner" ELSE "refund_in_domain"

Won(h) ==
  /\ h.result = Nil
  /\ Len(h.updLog) = 1
  /\ h.updLog[1].err = Nil

Lost(h) ==
  /\ h.result = Wrap(h.saga, UpdateStepOf(h.saga), ConflictError)
  /\ Len(h.updLog) = 1
  /\ h.updLog[1].err = ConflictError

\* C5: of two sagas (release/release or release/refund) that loaded the same
\* version of a held payment, exactly one has its store.update succeed and returns
\* success; the other's single update fails with the optimistic-lock conflict,
\* which it returns, and it changes nothing in the stored row.
C5_OneWinnerPerVersion ==
  \A h1 \in SagasOf(history), h2 \in SagasOf(history) :
    Raced(h1, h2) => \/ Won(h1) /\ Lost(h2)
                     \/ Won(h2) /\ Lost(h1)

C5_Witness ==
  \E h1 \in SagasOf(history), h2 \in SagasOf(history) :
    /\ Raced(h1, h2)
    /\ h1.saga = "release_escrow" /\ Won(h1)
    /\ h2.saga = "refund_escrow" /\ Lost(h2)

\* the sagas that returned a step failure
FailedSagas(H) == {h \in H : h.result # Nil /\ h.result.step # ""}

FailedAt(h) == Len(h.execLog)

CompSteps(h) == [i \in DOMAIN h.compLog |-> h.compLog[i].step]

\* the steps below k that carry a compensation, from k-1 down to 1
RECURSIVE Reversed(_, _)
Reversed(saga, k) ==
  IF k <= 1 THEN <<>>
  ELSE (IF HasCompensate(saga, k - 1) THEN <<StepNames(saga)[k - 1]>> ELSE <<>>)
         \o Reversed(saga, k - 1)

\* C6: when step k of a saga fails, the compensations of exactly the steps before k
\* that have one are invoked, each once, in the order k-1, ..., first; neither the
\* failing step nor a later one is compensated.
C6_CompensationCoverage ==
  \A h \in FailedSagas(history) :
    /\ h.execLog = SubSeq(StepNames(h.saga), 1, FailedAt(h))
    /\ h.result.step = StepNames(h.saga)[FailedAt(h)]
    /\ CompSteps(h) = Reversed(h.saga, FailedAt(h))

C6_Witness ==
  \E h \in FailedSagas(history) :
    /\ h.saga = "create_escrow"
    /\ FailedAt(h) = 4
    /\ Len(h.compLog) = 3

\* C7: a compensation that returns an error does not stop the reverse walk: the
\* earlier compensations are still invoked, and the saga returns the failure of
\* the step that failed, wrapped with the saga's and that step's name, never the
\* compensation's error.
C7_CompensationErrorsAreSwallowed ==
  \A h \in FailedSagas(history) :
    (\E i \in DOMAIN h.compLog : h.compLog[i].err # Nil)
      => /\ CompSteps(h) = Reversed(h.saga, FailedAt(h))
         /\ h.result = Wrap(h.saga, Last(h.execLog), h.cause)

C7_Witness ==
  \E h \in FailedSagas(history) :
    \E i \in DOMAIN h.compLog :
      /\ h.compLog[i].err # Nil
      /\ i < Len(h.compLog)
      /\ h.compLog[i].err.kind # h.result.kind

\* initiate alone, for two bookings
BookingsPair == {"b1", "b2"}

NextCreate ==
  \E t \in Tasks :
    \/ \E b \in BookingsPair, a \in Amounts, c \in Currencies : InitiatePayment(t, b, a, c)
    \/ CompSavePayment(t)
    \/ StepCreateStripePaymentIntent(t)
    \/ CompCreateStripePaymentIntent(t)
    \/ StepHoldEscrow(t)
    \/ CompHoldEscrow(t)
    \/ StepPublishEscrowHeld(t)
    \/ PublishFailedEvent(t)

SpecCreate == Init /\ [][NextCreate]_vars

DuplicateKey == Wrap("create_escrow", "save_payment", Err("UniqueViolation"))

Updating(t) ==
  /\ task'[t].stamp = task[t].stamp
  /\ Len(task'[t].updLog) = Len(task[t].updLog) + 1

VersionMatches(p) == store[p.id] # NoRow /\ store[p.id].version = p.version - 1

\* C9: store.update(p) changes the stored row only when the stored version equals
\* p.version - 1; otherwise it fails (with the optimistic-lock conflict unless the
\* database itself erred) and leaves every column of every row as it was.
C9_UpdateIsConditional ==
  [][\A t \in Tasks :
       Updating(t) =>
         LET p == task'[t].p
             u == Last(task'[t].updLog)
         IN /\ store' # store => VersionMatches(p)
            /\ (VersionMatches(p) /\ u.err = Nil)
                 => /\ store'[p.id].version = p.version
                    /\ store'[p.id].escrowStatus = p.escrowStatus
                    /\ \A id \in PaymentIDs \ {p.id} : store'[id] = store[id]
            /\ ~VersionMatches(p)
                 => /\ store' = store
                    /\ u.err \in {ConflictError, Err("DB")}]_vars

C9_Witness ==
  \E h \in history :
    /\ \E i \in DOMAIN h.updLog : h.updLog[i].err = ConflictError
    /\ h.myFaults = 0

\* C10: a payment's stored version is 1 when the row is saved and grows by exactly
\* 1 with every successful update, forward step or compensation alike; it never
\* skips, repeats or decreases.
C10_VersionSequence ==
  [][/\ \A id \in PaymentIDs :
          /\ (store[id] = NoRow /\ store'[id] # NoRow) => store'[id].version = 1
          /\ store[id] # NoRow
               => /\ store'[id] # NoRow
                  /\ \/ store'[id] = store[id]
                     \/ store'[id].version = store[id].version + 1
     /\ \A t \in Tasks :
          (Updating(t) /\ Last(task'[t].updLog).err = Nil)
             => store'[task'[t].p.id].version = store[task'[t].p.id].version + 1]_vars

C10_Witness ==
  \E id \in PaymentIDs :
    /\ store[id] # NoRow
    /\ store[id].version = 2
    /\ store[id].escrowStatus = EscrowFailed

Statuses == {EscrowPending, EscrowHeld, EscrowReleased, EscrowRefunded, EscrowFailed}

AllowedChanges ==
  {<<EscrowPending, EscrowHeld>>, <<EscrowHeld, EscrowReleased>>,
   <<EscrowHeld, EscrowRefunded>>, <<EscrowPending, EscrowFailed>>,
   <<EscrowHeld, EscrowFailed>>}

\* C11: in every step the stored status of a payment either stays as it is or
\* changes along pending->held, held->released, held->refunded, pending->failed or
\* held->failed; a stored status is always one of the five, and a row is never
\* removed.
C11_StatusChangesAreLegal ==
  [][\A id \in PaymentIDs :
       /\ store'[id] # NoRow => store'[id].escrowStatus \in Statuses
       /\ store[id] # NoRow
            => /\ store'[id] # NoRow
               /\ \/ store'[id].escrowStatus = store[id].escrowStatus
                  \/ <<store[id].escrowStatus, store'[id].escrowStatus>> \in AllowedChanges]_vars

C11_Witness ==
  \E id \in PaymentIDs :
    /\ store[id] # NoRow
    /\ store[id].escrowStatus = EscrowRefunded
    /\ store[id].version = 3

Terminal(row) == row.escrowStatus \in {EscrowReleased, EscrowRefunded, EscrowFailed}

FrozenColumns == Columns \ {"updatedAt"}

\* C12: once a payment is stored as released, refunded or failed, no step changes
\* its stored status, runner_id, gateway_ref, amounts, held_at, released_at,
\* refunded_at, refund_reason or version.
C12_TerminalRowsAreFrozen ==
  [][\A id \in PaymentIDs :
       (store[id] # NoRow /\ Terminal(store[id]))
         => /\ store'[id] # NoRow
            /\ \A c \in FrozenColumns : store'[id][c] = store[id][c]]_vars

\* a saga ran against a row it found in a terminal status
C12_Witness ==
  \E h \in history :
    /\ h.loaded # NoRow
    /\ Terminal(h.loaded)
    /\ h.execLog # <<>>
    /\ Terminal(store[h.loaded.id])

\* the stored statuses that show the row has been stored with the status an event
\* announces: released and refunded are entered from held only and never left
StatusesAfter(type) ==
  CASE type = "payment.escrow_held" -> {EscrowHeld, EscrowReleased, EscrowRefunded}
    [] type = "payment.escrow_released" -> {EscrowReleased}
    [] type = "payment.escrow_refunded" -> {EscrowRefunded}
    [] OTHER -> Statuses

VersionAfter(type) == IF type = "payment.escrow_held" THEN 2 ELSE 3

TransitionEvents ==
  {"payment.escrow_held", "payment.escrow_released", "payment.escrow_refunded"}

\* C13: whenever a payment.escrow_held, payment.escrow_released or
\* payment.escrow_refunded event for payment P is on the bus, the store update that
\* put P's row into held, released or refunded has already succeeded: the row is
\* stored with that status (or, for held, one entered from held) and the version
\* that update wrote.
C13_EventsFollowTheStoredTransition ==
  \A i \in DOMAIN published :
    published[i].type \in TransitionEvents
      => LET row == store[published[i].paymentID]
         IN /\ row # NoRow
            /\ row.escrowStatus \in StatusesAfter(published[i].type)
            /\ row.version >= VersionAfter(published[i].type)

C13_Witness ==
  /\ \E i \in DOMAIN published : published[i].type = "payment.escrow_held"
  /\ \E i \in DOMAIN published : published[i].type = "payment.escrow_released"

FailedEventFor(h) ==
  \E i \in DOMAIN published :
    /\ published[i].type = "payment.escrow_failed"
    /\ published[i].paymentID = h.paymentID
    /\ published[i].bookingID = h.bookingID

\* the bus accepted every event the operation handed to it
BusAccepted(h) == \A i \in DOMAIN h.pubLog : h.pubLog[i].ok

\* C14: every hold saga and every release saga that returned an error, at whatever
\* step and for whatever error, has a payment.escrow_failed event with the
\* payment's id and booking id on the bus when it returns (the bus itself accepting
\* what the saga publishes).
C14_FailedSagaPublishesFailedEvent ==
  \A h \in history :
    (h.saga \in {"create_escrow", "release_escrow"} /\ h.result # Nil /\ BusAccepted(h))
      => FailedEventFor(h)

\* every operation, with contexts that may be cancelled while it runs
NextCancel ==
  \/ Next
  \/ \E t \in Tasks : CancelContext(t)

SpecCancel == Init /\ [][NextCancel]_vars

\* C15: a saga whose step failed because the context was cancelled has invoked no
\* compensation of an earlier step when it returns.
C15_CancelledSagaDoesNotCompensate ==
  \A h \in history : h.cause = Err("Canceled") => h.compLog = <<>>

\* the release sagas that returned an error for a payment they loaded as held
FailedReleasesOfHeld ==
  {h \in history : /\ h.saga = "release_escrow"
                   /\ h.loaded # NoRow
                   /\ h.loaded.escrowStatus = EscrowHeld
                   /\ h.result # Nil}

\* another operation has updated the row since h loaded it
UpdatedByAnother(h) ==
  /\ store[h.loaded.id].version > h.loaded.version
  /\ store[h.loaded.id].updatedAt # h.stamp

ReleasePublishFailures ==
  {h \in history : /\ h.saga = "release_escrow"
                   /\ h.result # Nil
                   /\ h.result.step = "publish_escrow_released_event"}

CancelsOf(H) == {h \in H : h.op = "cancel"}

VoidsOf(h) == {i \in DOMAIN h.gwLog : h.gwLog[i].op = "void"}

\* C18: when booking.cancelled is handled for a held payment and refunds it, and is
\* handled again once that refund is stored, the second handling returns success
\* with no saga, no gateway call, no event and no change to the row: the row stays
\* refunded at the version the first handling wrote, one payment.escrow_refunded
\* event is published, and the two handlings invoked gateway.void once.
C18_CancelTwiceRefundsOnce ==
  \A h1 \in CancelsOf(history), h2 \in CancelsOf(history) :
    (/\ h1.stamp < h2.stamp
     /\ h1.myFaults = 0 /\ h2.myFaults = 0
     /\ h1.found # NoRow /\ h1.found.escrowStatus = EscrowHeld
     /\ h1.result = Nil
     /\ h2.found # NoRow /\ h2.found.id = h1.found.id
     /\ h2.found.escrowStatus = EscrowRefunded)
      => LET id == h1.found.id
         IN /\ h2.result = Nil
            /\ h2.loaded = NoRow /\ h2.execLog = <<>>
            /\ NoEffect(h2)
            /\ store[id].escrowStatus = EscrowRefunded
            /\ store[id].version = h1.found.version + 1
            /\ store[id].updatedAt = h1.stamp
            /\ CountPublished("payment.escrow_refunded", id) = 1
            /\ Cardinality(VoidsOf(h1)) = 1
            /\ h1.gwLog[1].ref = h1.found.stripePaymentID

C18_Witness ==
  \E h1 \in CancelsOf(history), h2 \in CancelsOf(history) :
    /\ h1.stamp < h2.stamp
    /\ h1.myFaults = 0 /\ h2.myFaults = 0
    /\ h1.found # NoRow /\ h1.found.escrowStatus = EscrowHeld
    /\ h1.result = Nil
    /\ h2.found = store[h1.found.id]
    /\ h2.found.escrowStatus = EscrowRefunded

\* C19: handling booking.cancelled for a payment stored as pending, released,
\* refunded or failed returns success without attempting a refund: no saga runs,
\* no gateway operation is invoked, no event is published and no update is issued.
C19_CancelOfNonHeldIsNoOp ==
  \A h \in CancelsOf(history) :
    (h.found # NoRow /\ h.found.escrowStatus # EscrowHeld /\ h.myFaults = 0)
      => /\ h.result = Nil
         /\ h.loaded = NoRow
         /\ h.execLog = <<>>
         /\ h.updLog = <<>>
         /\ NoEffect(h)

C19_Witness ==
  /\ \E h \in CancelsOf(history) :
       h.found # NoRow /\ h.found.escrowStatus = EscrowPending /\ h.myFaults = 0
  /\ \E h \in CancelsOf(history) :
       h.found # NoRow /\ Terminal(h.found) /\ h.myFaults = 0

HandlingsOfMissing(H) ==
  {h \in H : h.op \in {"deliver", "cancel"} /\ h.found = NoRow /\ h.myFaults = 0}

\* C20: handling booking.cancelled or booking.delivery_confirmed for a booking_id
\* that has no payment (FindByBookingID answers not found) returns success,
\* creates no row, issues no update, runs no saga, invokes no gateway operation
\* and publishes no event.
C20_HandlingOfMissingPaymentIsNoOp ==
  \A h \in HandlingsOfMissing(history) :
    /\ h.result = Nil
    /\ ~h.saved
    /\ h.updLog = <<>>
    /\ h.loaded = NoRow /\ h.execLog = <<>> /\ h.compLog = <<>>
    /\ NoEffect(h)

C20_Witness ==
  /\ \E h \in HandlingsOfMissing(history) : h.op = "deliver"
  /\ \E h \in HandlingsOfMissing(history) : h.op = "cancel"
  /\ store = [i \in PaymentIDs |-> NoRow]
  /\ published = <<>>

\* no other operation changed the row between the handler's lookup and the saga's
\* load and updates
Undisturbed(h) ==
  /\ h.loaded = h.found
  /\ \A i \in DOMAIN h.updLog : h.updLog[i].stored = h.found

EventsOf(type, paymentID) ==
  {i \in DOMAIN published :
     published[i].type = type /\ published[i].paymentID = paymentID}

\* the handlings of booking.cancelled that found the payment held, met no store,
\* gateway or bus error, and ran with no other operation changing the row meanwhile
CleanCancelsOfHeld ==
  {h \in CancelsOf(history) : /\ h.found # NoRow
                              /\ h.found.escrowStatus = EscrowHeld
                              /\ h.myFaults = 0
                              /\ Undisturbed(h)}

\* C21: handling booking.cancelled with reason r for a held payment, with store,
\* gateway and bus succeeding, returns success and leaves the stored row refunded
\* with refunded_at set and refund_reason = "booking cancelled: " followed by r;
\* exactly one payment.escrow_refunded event is published for the payment, and it
\* carries that booking id and refund reason.
C21_CancelRefundsHeldPayment ==
  \A h \in CleanCancelsOfHeld :
    LET row == store[h.found.id]
    IN /\ h.result = Nil
       /\ row.escrowStatus = EscrowRefunded
       /\ row.refundedAt # NoTime
       /\ row.refundedAt = Now(h)
       /\ \E r \in Reasons : row.refundReason = <<"booking cancelled: ">> \o r
       /\ row.version = h.found.version + 1
       /\ Cardinality(EventsOf("payment.escrow_refunded", row.id)) = 1
       /\ \A i \in EventsOf("payment.escrow_refunded", row.id) :
            /\ published[i].bookingID = h.bookingID
            /\ published[i].refundReason = row.refundReason
            /\ published[i].amountCents = row.amountCents

C21_Witness ==
  \E h \in CleanCancelsOfHeld :
    /\ h.execLog = StepNames("refund_escrow")
    /\ store[h.found.id].refundReason = <<"booking cancelled: ", "owner cancelled">>

\* the handlings of booking.delivery_confirmed that found the payment held, met no
\* store, gateway or bus error, and ran with no other operation changing the row
CleanDeliveriesOfHeld ==
  {h \in DeliveriesOf(history) : /\ h.found # NoRow
                                 /\ h.found.escrowStatus = EscrowHeld
                                 /\ h.myFaults = 0
                                 /\ Undisturbed(h)}

\* C22: handling booking.delivery_confirmed with runner R for a held payment, with
\* store, gateway and bus succeeding, returns success and leaves the stored row
\* released with runner_id = R and released_at set; exactly one
\* payment.escrow_released event is published for the payment, and its runner,
\* runner_payout, platform_fee and currency equal the stored row's values.
C22_DeliveryReleasesHeldPayment ==
  \A h \in CleanDeliveriesOfHeld :
    LET row == store[h.found.id]
    IN /\ h.result = Nil
       /\ row.escrowStatus = EscrowReleased
       /\ row.runnerID = h.runnerID /\ h.runnerID \in Runners
       /\ row.escrowReleasedAt # NoTime
       /\ row.escrowReleasedAt = Now(h)
       /\ row.version = h.found.version + 1
       /\ gwOks[<<"capture", row.stripePaymentID>>] >= 1
       /\ Cardinality(EventsOf("payment.escrow_released", row.id)) = 1
       /\ \A i \in EventsOf("payment.escrow_released", row.id) :
            /\ published[i].bookingID = h.bookingID
            /\ published[i].runnerID = row.runnerID
            /\ published[i].runnerPayout = row.runnerPayoutCents
            /\ published[i].platformFee = row.platformFeeCents
            /\ published[i].currency = row.currency
            /\ published[i].platformFee
                 = PlatformFee(row.amountCents, PlatformFeePercent)
            /\ published[i].runnerPayout = row.amountCents - published[i].platformFee

C22_Witness ==
  \E h \in CleanDeliveriesOfHeld :
    /\ h.execLog = StepNames("release_escrow")
    /\ store[h.found.id].runnerID = "r1"
    /\ store[h.found.id].currency = "MYR"

\* the initiate calls that met no store, gateway or bus error and whose booking had
\* no payment when they saved theirs
CleanInitiates ==
  {h \in InitiatesOf(history) : h.myFaults = 0 /\ ~h.saveSaw}

AuthorizedRefs(h) ==
  {h.gwLog[i].ref : i \in {j \in DOMAIN h.gwLog : h.gwLog[j].op = "authorize" /\ h.gwLog[j].ok}}

\* C23: an initiate call during which store, gateway and bus all succeed returns a
\* payment in status held with version 2, held_at set and gateway_ref equal to the
\* non-empty reference gateway.authorize returned; its one update stored the row
\* with those values (the row differs only once a later operation has updated it,
\* and keeps held_at and gateway_ref then); exactly one payment.escrow_held event
\* is published for the payment, and the call publishes no payment.escrow_failed
\* event.
C23_InitiateReturnsHeldPayment ==
  \A h \in CleanInitiates :
    LET p == h.returned
        row == store[h.paymentID]
    IN /\ h.result = Nil
       /\ p # NoP
       /\ p.escrowStatus = EscrowHeld
       /\ p.version = 2
       /\ p.escrowHeldAt # NoTime
       /\ p.stripePaymentID # EmptyRef
       /\ AuthorizedRefs(h) = {p.stripePaymentID}
       /\ p.platformFeeCents = PlatformFee(h.amountCents, PlatformFeePercent)
       /\ p.runnerPayoutCents = h.amountCents - p.platformFeeCents
       /\ Len(h.updLog) = 1 /\ h.updLog[1].err = Nil /\ h.updLog[1].wrote = EscrowHeld
       /\ row # NoRow
       /\ row.version = 2 => row = toModel(p)
       /\ row.version >= 2
       /\ row.stripePaymentID = p.stripePaymentID
       /\ row.escrowHeldAt = p.escrowHeldAt
       /\ Cardinality(EventsOf("payment.escrow_held", p.id)) = 1
       /\ \A i \in EventsOf("payment.escrow_held", p.id) :
            published[i] = EscrowHeldEvent(p)
       /\ h.pubLog = <<[type |-> "payment.escrow_held", ok |-> TRUE]>>
       /\ h.compLog = <<>>

C23_Witness ==
  \E h \in CleanInitiates :
    /\ h.execLog = StepNames("create_escrow")
    /\ store[h.paymentID] = toModel(h.returned)
    /\ store[h.paymentID].escrowStatus = EscrowHeld

\* C26: in every reachable state a stored payment has a non-null runner_id if and
\* only if its stored status is released, and the runner is one a delivery named.
C26_RunnerIffReleased ==
  \A id \in PaymentIDs :
    store[id] # NoRow
      => /\ store[id].runnerID # NoRunner <=> store[id].escrowStatus = EscrowReleased
         /\ store[id].runnerID \in Runners \cup {NoRunner}

C26_Witness ==
  /\ \E id \in PaymentIDs :
       /\ store[id] # NoRow
       /\ store[id].escrowStatus = EscrowReleased
       /\ store[id].runnerID = "r1"
  /\ \E h \in history : h.saga = "release_escrow" /\ h.result # Nil /\ h.execLog # <<>>

\* the timestamp columns and the status whose entry sets each
TimestampOf ==
  {<<"escrowHeldAt", EscrowHeld>>, <<"escrowReleasedAt", EscrowReleased>>,
   <<"refundedAt", EscrowRefunded>>}

\* C27: for every stored payment, held_at, released_at and refunded_at are each
\* set exactly by the stored transition that enters held, released and refunded
\* respectively (a row is saved with none of them set, and a step sets one if and
\* only if it stores the entry into that status), and once set a timestamp is
\* never cleared or changed by a later step or compensation.
C27_TimestampsFollowTransitions ==
  [][\A id \in PaymentIDs :
       /\ (store[id] = NoRow /\ store'[id] # NoRow)
            => \A ts \in TimestampOf : store'[id][ts[1]] = NoTime
       /\ store[id] # NoRow
            => \A ts \in TimestampOf :
                 /\ store[id][ts[1]] # NoTime => store'[id][ts[1]] = store[id][ts[1]]
                 /\ (store[id][ts[1]] = NoTime /\ store'[id][ts[1]] # NoTime)
                      <=> (store[id].escrowStatus # ts[2] /\ store'[id].escrowStatus = ts[2])]_vars

\* an operation on payment id has started and not returned
InFlight(id) == \E t \in Tasks : task[t].pc # "idle" /\ task[t].paymentID = id

\* C29: whenever no operation is in flight for a payment whose stored status is
\* released, gateway.capture has succeeded on its gateway_ref and neither
\* gateway.refund nor gateway.void has been invoked on that gateway_ref.
C29_ReleasedMeansCapturedAndKept ==
  \A id \in PaymentIDs :
    (store[id] # NoRow /\ store[id].escrowStatus = EscrowReleased /\ ~InFlight(id))
      => LET ref == store[id].stripePaymentID
         IN /\ gwOks[<<"capture", ref>>] >= 1
            /\ gwCalls[<<"refund", ref>>] = 0
            /\ gwCalls[<<"void", ref>>] = 0

\* C30: whenever no operation is in flight for a payment whose stored status is
\* held, the payment has a live gateway authorization: gateway.authorize succeeded
\* for its stored gateway_ref, and neither void, capture nor refund has been
\* invoked on that gateway_ref (counting the invocations the gateway carried out,
\* not those it answered with an error).
C30_HeldMeansLiveAuthorization ==
  \A id \in PaymentIDs :
    (store[id] # NoRow /\ store[id].escrowStatus = EscrowHeld /\ ~InFlight(id))
      => LET ref == store[id].stripePaymentID
         IN /\ ref # EmptyRef
            /\ gwOks[<<"authorize", ref>>] >= 1
            /\ gwOks[<<"void", ref>>] = 0
            /\ gwOks[<<"capture", ref>>] = 0
            /\ gwOks[<<"refund", ref>>] = 0

\* ------------------------------------------------- the aggregate by itself
NoCall == [method |-> "NewPayment", before |-> NoP, err |-> Nil]

\* p := payment.NewPayment(...): an aggregate and the method calls made on it
InitAggregate ==
  /\ \E bk \in Bookings, a \in Amounts, c \in Currencies :
       task = [t \in Tasks |->
                 IF t = 1
                 THEN [pc |-> "aggregate",
                       p |-> NewPayment(1, bk, a, c, PlatformFeePercent, 1),
                       last |-> NoCall]
                 ELSE Idle]
  /\ store = [id \in PaymentIDs |-> NoRow]
  /\ gwCalls = [x \in GwOps \X Refs |-> 0]
  /\ gwOks = [x \in GwOps \X Refs |-> 0]
  /\ published = <<>>
  /\ nextID = 1
  /\ nextRef = 1
  /\ opCount = 0
  /\ faults = 0
  /\ history = {}

\* the method returned r: the aggregate is what the method left, at the next instant
Called(method, r) ==
  /\ task[1].pc = "aggregate"
  /\ opCount < MaxCalls
  /\ task' = [task EXCEPT ![1] =
                [pc |-> "aggregate", p |-> r.p,
                 last |-> [method |-> method, before |-> task[1].p, err |-> r.err]]]
  /\ opCount' = opCount + 1
  /\ UNCHANGED <<store, gwCalls, gwOks, published, nextID, nextRef, faults, history>>

CallHoldEscrow ==
  \E ref \in Refs \ {EmptyRef} : Called("HoldEscrow", HoldEscrow(task[1].p, ref, opCount + 2))

CallReleaseToRunner ==
  \E r \in Runners : Called("ReleaseToRunner", ReleaseToRunner(task[1].p, r, opCount + 2))

CallRefund ==
  \E r \in Reasons : Called("Refund", Refund(task[1].p, r, opCount + 2))

CallFail ==
  \E r \in Reasons : Called("Fail", Fail(task[1].p, r, opCount + 2))

CallIncrementVersion ==
  Called("IncrementVersion", [err |-> Nil, p |-> IncrementVersion(task[1].p, opCount + 2)])

NextAggregate ==
  \/ CallHoldEscrow
  \/ CallReleaseToRunner
  \/ CallRefund
  \/ CallFail
  \/ CallIncrementVersion

SpecAggregate == InitAggregate /\ [][NextAggregate]_vars

\* the status a transition method moves to, and the statuses it may be called in
TargetOf(method) ==
  CASE method = "HoldEscrow" -> EscrowHeld
    [] method = "ReleaseToRunner" -> EscrowReleased
    [] method = "Refund" -> EscrowRefunded
    [] method = "Fail" -> EscrowFailed

AllowedFrom(method) ==
  CASE method = "HoldEscrow" -> {EscrowPending}
    [] method = "ReleaseToRunner" -> {EscrowHeld}
    [] method = "Refund" -> {EscrowHeld}
    [] method = "Fail" -> {EscrowPending, EscrowHeld}

TransitionMethods == {"HoldEscrow", "ReleaseToRunner", "Refund", "Fail"}

\* the last call was a transition requested in a status that does not allow it
Rejected(c) ==
  /\ c.method \in TransitionMethods
  /\ c.before.escrowStatus \notin AllowedFrom(c.method)

\* C28: hold, release, refund or fail called on an aggregate in a status from
\* which that transition is not allowed returns InvalidState naming the current
\* and the attempted status, and leaves every field of the aggregate (status,
\* gateway_ref, runner_id, timestamps, refund_reason, version, updated_at)
\* unchanged; called in an allowed status it returns no error and moves there.
C28_RejectedTransitionChangesNothing ==
  LET c == task[1].last
  IN task[1].pc = "aggregate"
       => /\ Rejected(c)
               => /\ c.err = InvalidStateError(c.before.escrowStatus, TargetOf(c.method))
                  /\ task[1].p = c.before
          /\ (c.method \in TransitionMethods /\ ~Rejected(c))
               => /\ c.err = Nil
                  /\ task[1].p.escrowStatus = TargetOf(c.method)

C28_Witness ==
  /\ task[1].pc = "aggregate"
  /\ Rejected(task[1].last)
  /\ task[1].last.method = "Fail"
  /\ task[1].last.before.escrowStatus = EscrowRefunded
  /\ task[1].last.before.refundReason # EmptyString
  /\ task[1].last.before.version = 2

\* an amount whose fee leaves a remainder
AmountsWide == {199}

\* the booking events and initiate, for payments of such an amount
NextAmounts ==
  \E t \in Tasks :
    \/ \E bk \in Bookings, a \in AmountsWide, c \in Currencies : InitiatePayment(t, bk, a, c)
    \/ CompSavePayment(t)
    \/ StepCreateStripePaymentIntent(t)
    \/ CompCreateStripePaymentIntent(t)
    \/ StepHoldEscrow(t)
    \/ CompHoldEscrow(t)
    \/ StepPublishEscrowHeld(t)
    \/ PublishFailedEvent(t)
    \/ ReleaseEscrowSaga(t)
    \/ StepCaptureStripePayment(t)
    \/ CompCaptureStripePayment(t)
    \/ StepReleaseToRunner(t)
    \/ StepPublishEscrowReleased(t)
    \/ RefundEscrowSaga(t)
    \/ StepCancelStripePayment(t)
    \/ StepRefundInDomain(t)
    \/ StepPublishEscrowRefunded(t)
    \/ \E bk \in Bookings, r \in Runners : HandleDeliveryConfirmed(t, bk, r)
    \/ \E bk \in Bookings, r \in Reasons : HandleBookingCancelled(t, bk, r)

SpecAmounts == Init /\ [][NextAmounts]_vars

\* C24: in every reachable state every stored payment has platform_fee_cents +
\* runner_payout_cents = amount_cents, with the amount it was created with and the
\* fee NewPayment derived from it, whatever saga steps and compensations have
\* updated the row.
C24_FeePlusPayoutIsAmount ==
  \A id \in PaymentIDs :
    store[id] # NoRow
      => /\ store[id].platformFeeCents + store[id].runnerPayoutCents = store[id].amountCents
         /\ store[id].amountCents \in AmountsWide
         /\ store[id].platformFeeCents = PlatformFee(store[id].amountCents, PlatformFeePercent)

C24_Witness ==
  \E id \in PaymentIDs :
    /\ store[id] # NoRow
    /\ store[id].amountCents = 199
    /\ store[id].platformFeeCents = 29
    /\ store[id].runnerPayoutCents = 170
    /\ store[id].escrowStatus = EscrowRefunded

\* ---------------------------------------------------- NewPayment's amounts
\* 2^e + d
Pow2Plus(e, d) == AddBits(Shl(<<1>>, e), ToBits(d), 0)

\* whole-number fee percentages
FeePercents == 0 .. 100

\* int64 amounts: small ones, and ones past the 53 binary digits of float64
AmountInputs ==
  {ToBits(1), ToBits(99), ToBits(150000), ToBits(150001),
   Pow2Plus(53, 1), Pow2Plus(53, 3), Pow2Plus(53, 7)}

NoAmounts == [amountCents |-> <<>>]

\* one call of NewPayment(bookingID, ownerID, amountCents, currency, feePercent)
InitFee ==
  /\ \E a \in AmountInputs, f \in FeePercents :
       task = [t \in Tasks |->
                 IF t = 1
                 THEN [pc |-> "call", amountCents |-> a, feePercent |-> f,
                       amounts |-> NoAmounts]
                 ELSE Idle]
  /\ store = [id \in PaymentIDs |-> NoRow]
  /\ gwCalls = [x \in GwOps \X Refs |-> 0]
  /\ gwOks = [x \in GwOps \X Refs |-> 0]
  /\ published = <<>>
  /\ nextID = 1
  /\ nextRef = 1
  /\ opCount = 0
  /\ faults = 0
  /\ history = {}

NewPaymentCall ==
  /\ task[1].pc = "call"
  /\ task' = [task EXCEPT ![1] =
                [@ EXCEPT !.pc = "returned",
                          !.amounts = NewPaymentAmounts(task[1].amountCents,
                                                        task[1].feePercent)]]
  /\ UNCHANGED <<store, gwCalls, gwOks, published, nextID, nextRef, opCount, faults, history>>

SpecFee == InitFee /\ [][NewPaymentCall]_vars

\* floor(amount * fee_percent / 100) in exact integer arithmetic
PlatformFeeExact(amountCents, feePercent) ==
  Norm(DivRem(Norm(MulSmall(amountCents, feePercent)), 100).q)

RECURSIVE FromBits(_)
FromBits(b) == IF b = <<>> THEN 0 ELSE Head(b) + 2 * FromBits(Tail(b))

\* for amounts that keep amount * 100 within 31 binary digits the float64 fee is
\* the quotient PlatformFee computes
PlatformFeeMatchesFloat64 ==
  LET c == task[1]
  IN (c.pc = "returned" /\ Len(c.amountCents) <= 24)
       => c.amounts.platformFeeCents
            = ToBits(PlatformFee(FromBits(c.amountCents), c.feePercent))

\* C25: for every amount_cents > 0 and every whole-number fee_percent in 0..100, a
\* newly constructed payment has platform_fee_cents = floor(amount_cents *
\* fee_percent / 100) and runner_payout_cents = amount_cents - platform_fee_cents,
\* hence 0 <= platform_fee_cents <= amount_cents (150000 at 15 percent gives 22500
\* and 127500).
C25_FeeIsTheExactFloor ==
  LET c == task[1]
  IN c.pc = "returned"
       => LET a == c.amounts
          IN /\ a.platformFeeCents = PlatformFeeExact(c.amountCents, c.feePercent)
             /\ a.runnerPayoutCents = Int64Sub(c.amountCents, a.platformFeeCents)
             /\ ~a.runnerPayoutCents.neg
             /\ (c.amountCents = ToBits(150000) /\ c.feePercent = 15)
                  => /\ a.platformFeeCents = ToBits(22500)
                     /\ a.runnerPayoutCents.mag = ToBits(127500)

\* ------------------------------------------------- the later properties
RefundsOf(H) == {h \in H : h.op = "refund"}

\* C31: the refund saga invoked through RefundPayment on a payment whose stored
\* status at load is not held fails with InvalidState without invoking any gateway
\* operation and without changing the stored row.
C31_RefundOfNonHeldTouchesNothing ==
  \A h \in RefundsOf(history) :
    (h.loaded # NoRow /\ h.loaded.escrowStatus # EscrowHeld /\ h.myFaults = 0)
      => /\ h.result.kind = "InvalidState"
         /\ h.gwLog = <<>>
         /\ \A i \in DOMAIN h.updLog : h.updLog[i].err # Nil

\* C33: every event on payment.events, payment.escrow_failed included, carries the
\* payment id of a row that exists in the store: an initiate that fails at
\* save_payment publishes no event for an id that was never stored.
C33_EventsNameStoredPayments ==
  \A i \in DOMAIN published : store[published[i].paymentID] # NoRow

\* C34: for each payment, under every interleaving of sagas and redelivered
\* booking events, payment.escrow_held, payment.escrow_released and
\* payment.escrow_refunded are each published at most once, and escrow_released and
\* escrow_refunded are never both published.
C34_TransitionEventsAtMostOnce ==
  \A id \in PaymentIDs :
    /\ \A type \in TransitionEvents : CountPublished(type, id) <= 1
    /\ ~(/\ CountPublished("payment.escrow_released", id) >= 1
          /\ CountPublished("payment.escrow_refunded", id) >= 1)

\* a release was published for a payment that another release or refund saga had
\* loaded too
C34_Witness ==
  \E h1 \in SagasOf(history), h2 \in SagasOf(history) :
    /\ h1.stamp # h2.stamp
    /\ h1.paymentID = h2.paymentID
    /\ h1.result = Nil /\ h1.saga = "release_escrow"
    /\ h2.result # Nil /\ h2.myFaults = 0
    /\ CountPublished("payment.escrow_released", h1.paymentID) = 1

\* the release sagas that ran Saga.Execute and returned
ReleasesOf(H) == {h \in H : h.saga = "release_escrow" /\ h.loaded # NoRow}

RefundCalls(h) == {i \in DOMAIN h.gwLog : h.gwLog[i].op = "refund"}

CaptureSucceeded(h) ==
  \E i \in DOMAIN h.gwLog : h.gwLog[i].op = "capture" /\ h.gwLog[i].ok

\* C35: in the release saga, when release_to_runner or
\* publish_escrow_released_event fails after gateway.capture succeeded,
\* gateway.refund is invoked exactly once, on the payment's gateway_ref and with its
\* full amount, as the compensation of the capture step; when gateway.capture
\* itself fails, or the saga succeeds, gateway.refund is not invoked.
C35_RefundCompensatesCapture ==
  \A h \in ReleasesOf(history) :
    IF h.result # Nil /\ h.result.step \in {"release_to_runner",
                                             "publish_escrow_released_event"}
    THEN /\ CaptureSucceeded(h)
         /\ Cardinality(RefundCalls(h)) = 1
         /\ \A i \in RefundCalls(h) :
              /\ h.gwLog[i].ref = h.loaded.stripePaymentID
              /\ h.gwLog[i].amountCents = h.loaded.amountCents
              /\ h.gwLog[i].amountCents \in AmountsWide
         /\ h.compLog # <<>> /\ Last(h.compLog).step = "capture_stripe_payment"
    ELSE RefundCalls(h) = {}

\* one release saga failed at release_to_runner, one at its publish step and one at
\* the capture itself
C35_Witness ==
  /\ \E h \in ReleasesOf(history) :
       h.result.step = "release_to_runner" /\ Cardinality(RefundCalls(h)) = 1
  /\ \E h \in ReleasesOf(history) :
       h.result.step = "publish_escrow_released_event" /\ Cardinality(RefundCalls(h)) = 1

\* a release saga failed at the capture and invoked no refund
C35_WitnessCapture ==
  \E h \in ReleasesOf(history) :
    h.result.step = "capture_stripe_payment" /\ RefundCalls(h) = {}

\* the sagas in Saga.Execute and those that returned from it
SagaRuns ==
  {task[t] : t \in {u \in Tasks : task[u].pc \in {"exec", "comp", "failed", "reload"}}}
    \cup {h \in history : h.execLog # <<>>}

\* C36: Saga.Execute runs the steps strictly in list order, each at most once: a
\* step executes only after every step before it returned success, no step is
\* executed after a failed one, and when every step succeeded no compensation is
\* invoked and the saga returns success.
C36_StepsRunInOrder ==
  \A r \in SagaRuns :
    LET names == StepNames(r.saga)
        n == Len(r.execLog)
    IN /\ n <= Len(names)
       /\ r.execLog = SubSeq(names, 1, n)
       /\ r.pc = "exec" => (r.err = Nil /\ r.step = n + 1 /\ r.compLog = <<>>)
       /\ r.err # Nil => (r.pc # "exec" /\ r.step = n /\ r.err.step = names[n])
       /\ (r.err = Nil /\ r.pc # "exec")
            => /\ n = Len(names)
               /\ r.compLog = <<>>
               /\ \A i \in DOMAIN r.pubLog : r.pubLog[i].type # "payment.escrow_failed"
               /\ (r.pc = "done" /\ r.op # "refund") => r.result = Nil

\* one saga ran all its steps and returned success, another stopped at a failed
\* step in the middle
C36_Witness ==
  /\ \E h \in history :
       h.execLog # <<>> /\ h.execLog = StepNames(h.saga) /\ h.result = Nil
  /\ \E h \in history :
       /\ h.err # Nil
       /\ Len(h.execLog) \in 2 .. Len(StepNames(h.saga)) - 1

\* the version of the aggregate when the saga last saved, updated or loaded it
\* successfully before its i-th Update
VersionBefore(r, i) ==
  LET done == {j \in 1 .. i - 1 : r.updLog[j].err = Nil}
  IN IF done # {} THEN r.updLog[Top(done)].version
     ELSE IF r.loaded # NoRow THEN r.loaded.version
     ELSE 1

\* C37: every Update a saga issues, in a forward step or in a compensation,
\* persists an aggregate whose version was bumped exactly once since the saga last
\* saved, updated or loaded it successfully.
C37_UpdatesBumpOnce ==
  \A r \in SagaRuns :
    \A i \in DOMAIN r.updLog : r.updLog[i].version = VersionBefore(r, i) + 1

\* the payment intents gateway.authorize returned for payment id
AuthorizedFor(id) ==
  UNION {{r.gwLog[i].ref : i \in {j \in DOMAIN r.gwLog :
                                    r.gwLog[j].op = "authorize" /\ r.gwLog[j].ok}} :
         r \in {x \in SagaRuns : x.op = "initiate" /\ x.paymentID = id}}

\* C38: in every reachable state, a payment whose stored status is failed has no
\* live gateway authorization: gateway.authorize never succeeded for it, or
\* gateway.void has been invoked on the gateway_ref it obtained.
C38_FailedMeansNoLiveAuthorization ==
  \A id \in PaymentIDs :
    (store[id] # NoRow /\ store[id].escrowStatus = EscrowFailed)
      => /\ \A ref \in AuthorizedFor(id) : gwCalls[<<"void", ref>>] >= 1
         /\ store[id].stripePaymentID \in AuthorizedFor(id) \cup {EmptyRef}

\* a payment is stored failed after its authorization succeeded
C38_Witness ==
  \E id \in PaymentIDs :
    /\ store[id] # NoRow /\ store[id].escrowStatus = EscrowFailed
    /\ AuthorizedFor(id) # {}
    /\ \A ref \in AuthorizedFor(id) : gwCalls[<<"void", ref>>] = 1

\* C39: within one execution of the hold saga, whichever step fails, gateway.void
\* is invoked at most once for the gateway_ref that saga obtained.
C39_HoldSagaVoidsAtMostOnce ==
  \A r \in SagaRuns :
    r.saga = "create_escrow"
      => Cardinality({i \in DOMAIN r.gwLog :
                        r.gwLog[i].op = "void" /\ r.gwLog[i].ref = r.stripePaymentID}) <= 1

\* --------------------------------------------- the consumer of booking.events
\* the consumer handles one message at a time and hands a message whose handler
\* returned an error to the handler again; the store, the gateway and the bus
\* answer every call. Calls and events are counted up to MaxSeen.
MaxSeen == 2

\* the stores a message can meet: no payment for the booking, or its payment as
\* the hold saga saved it and as each later Update left it
StoresOf(bookingID) ==
  LET empty == [id \in PaymentIDs |-> NoRow]
      at == 1
      pending == NewPayment(1, bookingID, CHOOSE a \in Amounts : TRUE,
                            CHOOSE c \in Currencies : TRUE, PlatformFeePercent, at)
      held == IncrementVersion(HoldEscrow(pending, 1, at).p, at)
      released == IncrementVersion(
                    ReleaseToRunner(held, CHOOSE r \in Runners : TRUE, at).p, at)
      refunded == IncrementVersion(Refund(held, CHOOSE r \in Reasons : TRUE, at).p, at)
      failed == Fail(held, <<"saga compensation: escrow creation failed">>, at).p
      saved == Save(empty, pending).st
      stHeld == Update(saved, held).st
  IN {empty, saved, stHeld, Update(stHeld, released).st, Update(stHeld, refunded).st,
      Update(saved, failed).st}

\* ReleaseEscrowSaga(paymentID, runnerID) when every call is answered: the error it
\* returns, the store it leaves, its gateway calls and the events it publishes
ReleaseOutcome(st, paymentID, runnerID, now) ==
  LET l == FindByID(st, paymentID)
      ref == l.p.stripePaymentID
      h == ReleaseToRunner(l.p, runnerID, now)
      u == IF h.err = Nil THEN Update(st, IncrementVersion(h.p, now))
                          ELSE [err |-> h.err, st |-> st]
      err == Wrap("release_escrow", "release_to_runner", u.err)
  IN IF l.err # Nil
     THEN [err |-> l.err, st |-> st, gw |-> {}, events |-> <<>>]
     ELSE IF u.err # Nil
     THEN [err |-> err, st |-> st,
           gw |-> {<<"capture", ref>>}
                    \cup (IF FirstCompensation("release_escrow", 2) # 0
                          THEN {<<"refund", ref>>} ELSE {}),
           events |-> <<PaymentFailedEvent(l.p.id, l.p.bookingID, err)>>]
     ELSE [err |-> Nil, st |-> u.st, gw |-> {<<"capture", ref>>},
           events |-> <<EscrowReleasedEvent(IncrementVersion(h.p, now), runnerID)>>]

\* RefundEscrowSaga(paymentID, reason) when every call is answered
RefundOutcome(st, paymentID, reason, now) ==
  LET l == FindByID(st, paymentID)
      ref == l.p.stripePaymentID
      h == Refund(l.p, reason, now)
      u == IF h.err = Nil THEN Update(st, IncrementVersion(h.p, now))
                          ELSE [err |-> h.err, st |-> st]
      err == Wrap("refund_escrow", "refund_in_domain", u.err)
  IN IF l.err # Nil
     THEN [err |-> l.err, st |-> st, gw |-> {}, events |-> <<>>]
     ELSE IF u.err # Nil
     THEN [err |-> err, st |-> st, gw |-> {<<"void", ref>>},
           events |-> <<PaymentFailedEvent(l.p.id, l.p.bookingID, err)>>]
     ELSE [err |-> Nil, st |-> u.st, gw |-> {<<"void", ref>>},
           events |-> <<EscrowRefundedEvent(IncrementVersion(h.p, now), reason)>>]

NoOutcome(st) == [err |-> Nil, st |-> st, gw |-> {}, events |-> <<>>]

\* PaymentService.HandleDeliveryConfirmed / HandleBookingCancelled for message m
HandlerOutcome(st, m, now) ==
  LET r == FindByBookingID(st, m.bookingID)
  IN IF r.err # Nil
     THEN IF IsNotFound(r.err) THEN NoOutcome(st) ELSE [NoOutcome(st) EXCEPT !.err = r.err]
     ELSE IF m.op = "deliver"
     THEN ReleaseOutcome(st, r.p.id, m.runnerID, now)
     ELSE IF RefundOnCancel(r.p)
     THEN RefundOutcome(st, r.p.id, CancelReason(m.reason), now)
     ELSE NoOutcome(st)

InitConsume ==
  /\ store \in UNION {StoresOf(bk) : bk \in BookingsPair}
  /\ gwCalls = [x \in GwOps \X Refs |-> 0]
  /\ gwOks = [x \in GwOps \X Refs |-> 0]
  /\ published = <<>>
  /\ task = [t \in Tasks |-> Idle]
  /\ nextID = 1
  /\ nextRef = 1
  /\ opCount = 0
  /\ faults = 0
  /\ history = {}

\* the consumer fetches the next message of booking.events
FetchMessage(op, bookingID, runnerID, reason) ==
  /\ task[1].pc \in {"idle", "acked"}
  /\ task' = [task EXCEPT ![1] =
                [Idle EXCEPT !.op = op, !.pc = "unacked", !.bookingID = bookingID,
                             !.runnerID = runnerID, !.reason = reason]]
  /\ UNCHANGED <<store, gwCalls, gwOks, published, nextID, nextRef, opCount, faults, history>>

\* a message whose handler returned an error is delivered again
Redeliver ==
  /\ task[1].pc = "nacked"
  /\ task' = [task EXCEPT ![1].pc = "unacked"]
  /\ UNCHANGED <<store, gwCalls, gwOks, published, nextID, nextRef, opCount, faults, history>>

\* the consumer hands the delivered message to handleMessage
HandleMessage ==
  /\ task[1].pc = "unacked"
  /\ LET o == HandlerOutcome(store, task[1], 2)
         seen == [x \in GwOps \X Refs |->
                    IF x \in o.gw /\ gwCalls[x] < MaxSeen THEN gwCalls[x] + 1 ELSE gwCalls[x]]
     IN /\ store' = o.st
        /\ gwCalls' = seen
        /\ gwOks' = seen
        /\ published' = IF Len(published) < MaxSeen THEN published \o o.events ELSE published
        /\ task' = [task EXCEPT ![1] =
                      [@ EXCEPT !.pc = IF o.err = Nil THEN "acked" ELSE "nacked",
                                !.result = o.err]]
  /\ UNCHANGED <<nextID, nextRef, opCount, faults, history>>

NextConsume ==
  \/ \E bk \in BookingsPair, r \in Runners : FetchMessage("deliver", bk, r, EmptyString)
  \/ \E bk \in BookingsPair, r \in Reasons : FetchMessage("cancel", bk, NoRunner, r)
  \/ HandleMessage
  \/ Redeliver

SpecConsume ==
  InitConsume /\ [][NextConsume]_vars /\ WF_vars(HandleMessage) /\ WF_vars(Redeliver)

\* C32: with a store, a gateway and a bus that never fail and fair redelivery, every
\* booking.delivery_confirmed and booking.cancelled message is eventually
\* acknowledged: its handler eventually returns success, whatever the stored status
\* of the payment is when the message arrives.
C32_EveryMessageIsAcknowledged ==
  (task[1].pc = "unacked") ~> (task[1].pc = "acked")

\* a message for a booking without a payment, a cancellation of a payment in any
\* status and a delivery of a held payment are acknowledged
C32_OthersAreAcknowledged ==
  (/\ task[1].pc = "unacked"
   /\ \/ FindByBookingID(store, task[1].bookingID).err # Nil
      \/ task[1].op = "cancel"
      \/ FindByBookingID(store, task[1].bookingID).p.escrowStatus = EscrowHeld)
    ~> (task[1].pc = "acked")

====
